---- MODULE Spec2Model ----
(***************************************************************************)
(* A model of PyFibonacci: the Fibonacci evaluators (the pyfibonacci       *)
(* package and the legacy fibonacci package), the multiplication           *)
(* dispatcher, and the asyncio orchestration around them.                  *)
(*                                                                         *)
(* Python integers are unbounded.  They are modelled as little-endian      *)
(* sequences of limbs in base 2^16 with no leading zero limb (zero is the  *)
(* empty sequence); every arithmetic operator below is exact.              *)
(***************************************************************************)
EXTENDS Integers, Sequences, FiniteSets, TLC

VARIABLES
    pc,      \* evaluator calls: "ready" before the call, "returned" after it
    inp,     \* evaluator calls: the arguments drawn for the call
    call,    \* evaluator calls: what the call did (a record), or NoCall
    args,    \* orchestration: the entry point that runs and its arguments
    cur,     \* orchestration: the task that holds the event loop's thread, or "loop"
    run,     \* orchestration: the state of each algorithm run
    main,    \* orchestration: the task that started the runs
    bar,     \* orchestration: the task of progress_bar_manager
    queue,   \* orchestration: the messages on the progress queue
    calc,    \* products: the calculation that runs
    prods    \* products: the products the calculation has issued, in order

evalVars == <<pc, inp, call>>
appVars == <<args, cur, run, main, bar, queue>>
poolVars == <<calc, prods>>
vars == <<evalVars, appVars, poolVars>>

\* Each specification below drives one group of variables; the other groups
\* stay idle.
EvalIdle == pc = "idle" /\ inp = <<>> /\ call = <<>>
PoolIdle == calc = <<>> /\ prods = <<>>
AppIdle ==
    /\ args = [entry |-> "none"]
    /\ cur = "loop"
    /\ run = <<>>
    /\ main = <<>>
    /\ bar = <<>>
    /\ queue = <<>>

-----------------------------------------------------------------------------
(* Exact integer arithmetic (Python int).                                  *)

BASE == 65536

Zero == <<>>
One == <<1>>
Negative == <<-1>>

Max2(x, y) == IF x >= y THEN x ELSE y
Min2(x, y) == IF x <= y THEN x ELSE y

Digit(a, i) == IF i <= Len(a) THEN a[i] ELSE 0

\* e, evaluated once x has been computed: x is what an earlier statement of
\* the code has produced, e the statements that follow it.
After(x, e) == IF x = x THEN e ELSE e

\* Drop the zero limbs at the most significant end, k at a time.
RECURSIVE TrimBy(_, _)
TrimBy(s, k) ==
    IF Len(s) >= k /\ \A i \in (Len(s) - k + 1)..Len(s) : s[i] = 0
    THEN TrimBy(SubSeq(s, 1, Len(s) - k), k)
    ELSE s

Trim(s) == TrimBy(TrimBy(TrimBy(s, 256), 16), 1)

\* Carry propagation over v[lo..hi] with incoming carry cin: the digits and
\* the outgoing carry.  The recursion splits the range in two so that its
\* depth stays logarithmic; the carries still run from lo to hi.
CarryDigit(val, B) == [d |-> <<val % B>>, c |-> val \div B]

CarryJoin(L, R) == [d |-> L.d \o R.d, c |-> R.c]

RECURSIVE CarryRange(_, _, _, _, _)
CarryRight(v, mid, hi, L, B) ==
    After(L, CarryJoin(L, CarryRange(v, mid + 1, hi, L.c, B)))

CarryRange(v, lo, hi, cin, B) ==
    IF lo = hi THEN CarryDigit(v[lo] + cin, B)
    ELSE CarryRight(v, (lo + hi) \div 2, hi,
                    CarryRange(v, lo, (lo + hi) \div 2, cin, B), B)

RECURSIVE CarryTail(_, _)
CarryTail(c, B) == IF c <= 0 THEN <<>> ELSE <<c % B>> \o CarryTail(c \div B, B)

CarryFinish(r, B) ==
    IF r.c < 0 THEN Negative ELSE Trim(r.d \o CarryTail(r.c, B))

\* The number whose i-th coefficient in base B is v[i] (coefficients may
\* exceed B or be negative); Negative when the value is below zero.
Carry(v, B) ==
    IF Len(v) = 0 THEN <<>> ELSE CarryFinish(CarryRange(v, 1, Len(v), 0, B), B)

Add(a, b) ==
    Carry([i \in 1..Max2(Len(a), Len(b)) |-> Digit(a, i) + Digit(b, i)], BASE)

Sub(a, b) ==
    Carry([i \in 1..Max2(Len(a), Len(b)) |-> Digit(a, i) - Digit(b, i)], BASE)

\* b times one limb s (0 <= s < BASE).  s is split in two bytes so that no
\* intermediate value leaves the 32-bit range of the checker's integers.
Row(b, s) ==
    LET s0 == s % 256
        s1 == s \div 256
    IN Carry([j \in 1..(Len(b) + 1) |->
                (IF j <= Len(b) THEN b[j] * s0 + ((b[j] * s1) % 256) * 256 ELSE 0)
              + (IF j > 1 THEN (b[j - 1] * s1) \div 256 ELSE 0)], BASE)

Shift(a, k) == IF Len(a) = 0 \/ k = 0 THEN a ELSE [i \in 1..k |-> 0] \o a

AddParts(L, R) == After(L, After(R, Add(L, R)))

RECURSIVE MulRange(_, _, _, _)
\* the sum of the partial products of b by the limbs lo..hi of a
MulRange(a, b, lo, hi) ==
    IF lo = hi THEN (IF a[lo] = 0 THEN Zero ELSE Shift(Row(b, a[lo]), lo - 1))
    ELSE AddParts(MulRange(a, b, lo, (lo + hi) \div 2),
                  MulRange(a, b, (lo + hi) \div 2 + 1, hi))

\* a * b
Mul(a, b) ==
    IF Len(a) = 0 \/ Len(b) = 0 THEN Zero
    ELSE MulRange(IF Len(a) <= Len(b) THEN a ELSE b,
                  IF Len(a) <= Len(b) THEN b ELSE a, 1, Min2(Len(a), Len(b)))

\* A small native number as an integer value.
FromInt(k) == Carry(<<k>>, BASE)

RECURSIVE BitLenInt(_)
BitLenInt(k) == IF k = 0 THEN 0 ELSE 1 + BitLenInt(k \div 2)

\* int.bit_length()
bit_length(a) ==
    IF Len(a) = 0 THEN 0 ELSE 16 * (Len(a) - 1) + BitLenInt(a[Len(a)])

RECURSIVE Pow(_, _)
Pow(b, e) == IF e = 0 THEN 1 ELSE b * Pow(b, e - 1)

\* math.log2(10) = 3.321928094887362 in millionths, rounded down
LOG2_10_MICRO == 3321928

\* m > threshold * math.log2(10) for an integer m, i.e. m exceeds the integer
\* part of the product: 3 * threshold plus the integer part of
\* threshold * 0.321928, which stays within 32 bits for 0 <= threshold <= 6670.
ExceedsDigits(m, threshold) ==
    m > 3 * threshold + (threshold * (LOG2_10_MICRO - 3000000)) \div 1000000

-----------------------------------------------------------------------------
(* pyfibonacci.core: context, multiply, fib_iterative, fib_matrix,         *)
(* fib_fast_doubling.  An evaluation is a record: its status ("ok" or      *)
(* "ValueError"), its value, the number of calls of multiply (nmul), the   *)
(* number of products submitted to the executor (npool), and the number of *)
(* messages put on the progress queue (puts).                              *)

\* CalculationContext: executor and progress_queue are optional (None).
CalculationContext(threshold, executor, progress_queue) ==
    [threshold |-> threshold, executor |-> executor, progress_queue |-> progress_queue]

\* multiply, were it to go by the smaller operand.
submits_by_smaller_operand(context, a, b) ==
    /\ context.executor
    /\ ExceedsDigits(Min2(bit_length(a), bit_length(b)), context.threshold)

\* multiply decides between the native product and the executor.
submits(context, a, b) ==
    /\ context.executor
    /\ ExceedsDigits(Max2(bit_length(a), bit_length(b)), context.threshold)

multiply(context, a, b) ==
    [v |-> Mul(a, b), pool |-> IF submits(context, a, b) THEN 1 ELSE 0]

\* No value: what a call that raised has returned.
NoValue == <<-2>>

ValueError ==
    [status |-> "ValueError", value |-> NoValue, nmul |-> 0, npool |-> 0, puts |-> 0]

Returns(value, nmul, npool, puts) ==
    [status |-> "ok", value |-> value, nmul |-> nmul, npool |-> npool, puts |-> puts]

RECURSIVE IterLoop(_, _)
IterRest(first, k) == After(first, IterLoop(first, k))

\* k rounds of a, b = b, a + b from the pair ab.  The rounds run in order;
\* the recursion halves k so that its depth stays logarithmic.
IterLoop(ab, k) ==
    IF k = 0 THEN ab
    ELSE IF k = 1 THEN <<ab[2], Add(ab[1], ab[2])>>
    ELSE IterRest(IterLoop(ab, k \div 2), k - k \div 2)

fib_iterative(n) ==
    IF n < 0 THEN ValueError
    ELSE IF n = 0 THEN Returns(Zero, 0, 0, 0)
    ELSE Returns(IterLoop(<<Zero, One>>, n - 1)[2], 0, 0, 0)

\* the cells of the product from the eight gathered products p
MatrixOfProducts(p) ==
    [m |-> <<Add(p[1].v, p[2].v), Add(p[3].v, p[4].v),
             Add(p[5].v, p[6].v), Add(p[7].v, p[8].v)>>,
     nmul |-> 8,
     npool |-> p[1].pool + p[2].pool + p[3].pool + p[4].pool
               + p[5].pool + p[6].pool + p[7].pool + p[8].pool]

\* multiply_matrices: eight products gathered, then four sums.
multiply_matrices(context, A, B) ==
    After(<<A, B>>,
          MatrixOfProducts(<<multiply(context, A[1], B[1]), multiply(context, A[2], B[3]),
                             multiply(context, A[1], B[2]), multiply(context, A[2], B[4]),
                             multiply(context, A[3], B[1]), multiply(context, A[4], B[3]),
                             multiply(context, A[3], B[2]), multiply(context, A[4], B[4])>>))

\* the result of a matrix product made after the computation prev
Tally(prev, step) ==
    [m |-> step.m, nmul |-> prev.nmul + step.nmul, npool |-> prev.npool + step.npool]

\* multiply_matrices(half, half)
SquareOf(context, half) ==
    After(half, Tally(half, multiply_matrices(context, half.m, half.m)))

\* multiply_matrices(A, temp)
TimesA(context, A, temp) ==
    After(temp, Tally(temp, multiply_matrices(context, A, temp.m)))

RECURSIVE matrix_power_odd_as_even(_, _, _)
\* matrix_power without the multiplication by A for an odd exponent
matrix_power_odd_as_even(context, A, m) ==
    IF m = 0 THEN [m |-> <<One, Zero, Zero, One>>, nmul |-> 0, npool |-> 0]
    ELSE IF m = 1 THEN [m |-> A, nmul |-> 0, npool |-> 0]
    ELSE SquareOf(context, matrix_power_odd_as_even(context, A, m \div 2))

RECURSIVE matrix_power(_, _, _)
matrix_power(context, A, m) ==
    IF m = 0 THEN [m |-> <<One, Zero, Zero, One>>, nmul |-> 0, npool |-> 0]
    ELSE IF m = 1 THEN [m |-> A, nmul |-> 0, npool |-> 0]
    ELSE IF m % 2 = 0 THEN SquareOf(context, matrix_power(context, A, m \div 2))
    ELSE TimesA(context, A, SquareOf(context, matrix_power(context, A, (m - 1) \div 2)))

MatrixResult(r) == Returns(r.m[1], r.nmul, r.npool, 0)

fib_matrix(context, n) ==
    IF n < 0 THEN ValueError
    ELSE IF n = 0 THEN Returns(Zero, 0, 0, 0)
    ELSE MatrixResult(matrix_power(context, <<One, One, One, Zero>>, n - 1))

\* what _fib_fast_doubling(m) returns after its three products
DoublingReturn(m, r, put, fk_squared, fk1_squared, f2k, f2k1) ==
    [fk |-> IF m % 2 = 0 THEN f2k.v ELSE f2k1,
     fk1 |-> IF m % 2 = 0 THEN f2k1 ELSE Add(f2k.v, f2k1),
     nmul |-> r.nmul + 3,
     npool |-> r.npool + fk_squared.pool + fk1_squared.pool + f2k.pool,
     puts |-> r.puts + put]

\* _fib_fast_doubling, were F(2k+1) the difference of the squares.
DoublingSums_difference(m, r, put, fk_squared, fk1_squared, f2k) ==
    DoublingReturn(m, r, put, fk_squared, fk1_squared, f2k,
                   Sub(fk1_squared.v, fk_squared.v))

DoublingSums(m, r, put, fk_squared, fk1_squared, f2k) ==
    DoublingReturn(m, r, put, fk_squared, fk1_squared, f2k,
                   Add(fk1_squared.v, fk_squared.v))

\* _fib_fast_doubling(m) after its recursive call has returned r
Doubling(context, m, r, put) ==
    After(r, DoublingSums(m, r, put,
                          multiply(context, r.fk, r.fk),
                          multiply(context, r.fk1, r.fk1),
                          multiply(context, r.fk, Sub(Add(r.fk1, r.fk1), r.fk))))

QueuePut(context) == IF context.progress_queue THEN 1 ELSE 0

RECURSIVE fib_fast_doubling_rec(_, _)
\* _fib_fast_doubling(m): the pair (F(m), F(m+1))
fib_fast_doubling_rec(context, m) ==
    IF m = 0
    THEN [fk |-> Zero, fk1 |-> One, nmul |-> 0, npool |-> 0, puts |-> QueuePut(context)]
    ELSE Doubling(context, m, fib_fast_doubling_rec(context, m \div 2), QueuePut(context))

FastDoublingResult(r) == Returns(r.fk, r.nmul, r.npool, r.puts)

fib_fast_doubling(context, n) ==
    IF n < 0 THEN ValueError
    ELSE IF n = 0 THEN Returns(Zero, 0, 0, 0)
    ELSE FastDoublingResult(fib_fast_doubling_rec(context, n))

-----------------------------------------------------------------------------
(* The legacy fibonacci package: Calculator, FastDoubling,                 *)
(* MatrixExponentiation.  A progress value is a fraction <<num, den>> with *)
(* den > 0; the floating-point quotient num / den of the code is exactly   *)
(* 1.0 iff num = den and keeps the order of the fractions for the sizes    *)
(* reached here (num, den < 2^53).                                         *)

MAX_FIB_UINT64 == 93

Frac(num, den) == <<num, den>>
FracLeq(p, q) == p[1] * q[2] <= q[1] * p[2]
IsOne(p) == p[1] = p[2]
InUnit(p) == 0 <= p[1] /\ p[1] <= p[2]

\* ProgressReporter.report: the callback receives progress when there is a
\* callback and 0.0 <= progress <= 1.0.
report(callback, reports, progress) ==
    IF callback /\ InUnit(progress) THEN Append(reports, progress) ELSE reports

RECURSIVE LutAppend(_, _)
LutRest(first, k) == After(first, LutAppend(first, k))

\* k appends of table[i-1] + table[i-2]; last2 is <<table[i-2], table[i-1]>>
LutAppend(last2, k) ==
    IF k = 0 THEN last2
    ELSE IF k = 1 THEN <<last2[2], Add(last2[2], last2[1])>>
    ELSE LutRest(LutAppend(last2, k \div 2), k - k \div 2)

\* _fib_lookup_table[n], 0 <= n <= MAX_FIB_UINT64
fib_lookup_table(n) == IF n = 0 THEN Zero ELSE LutAppend(<<Zero, One>>, n - 1)[2]

\* FastDoubling._sequential_multiply and _parallel_multiply compute the same
\* three products; parallel tells where they run.
DoublingProducts(f_2k, f_k_squared, f_k1_squared, should_parallelize) ==
    [f_2k |-> f_2k, f_2k1 |-> Add(f_k_squared, f_k1_squared),
     parallel |-> should_parallelize]

\* _sequential_multiply
FastDoubling_sequential_multiply(f_k, f_k1, two_fk1_minus_fk) ==
    DoublingProducts(Mul(f_k, two_fk1_minus_fk), Mul(f_k, f_k), Mul(f_k1, f_k1), FALSE)

\* _parallel_multiply, were the results of the workers awaited in another
\* order than their futures were created.
FastDoubling_parallel_multiply_swapped(f_k, f_k1, two_fk1_minus_fk) ==
    DoublingProducts(Mul(f_k, f_k), Mul(f_k, two_fk1_minus_fk), Mul(f_k1, f_k1), TRUE)

\* _parallel_multiply: the same three products, each by a worker
FastDoubling_parallel_multiply(f_k, f_k1, two_fk1_minus_fk) ==
    DoublingProducts(Mul(f_k, two_fk1_minus_fk), Mul(f_k, f_k), Mul(f_k1, f_k1), TRUE)

\* _doubling_step
doubling_step(f_k, f_k1, use_parallel, threshold) ==
    LET two_fk1_minus_fk == Sub(Add(f_k1, f_k1), f_k)
        should_parallelize ==
            use_parallel /\ Max2(bit_length(f_k), bit_length(f_k1)) > threshold
    IN IF should_parallelize
       THEN FastDoubling_parallel_multiply(f_k, f_k1, two_fk1_minus_fk)
       ELSE FastDoubling_sequential_multiply(f_k, f_k1, two_fk1_minus_fk)

RECURSIVE Sum4(_)
\* sum(4**i for i in range(k))
Sum4(k) == IF k = 0 THEN 0 ELSE Pow(4, k - 1) + Sum4(k - 1)

\* bits[i] of bin(n)[2:], i counted from 0 at the most significant bit
BitOf(n, i) == (n \div Pow(2, BitLenInt(n) - 1 - i)) % 2

\* min(work_done / total_work, 1.0)
Progress(work_done, total_work) ==
    IF work_done >= total_work THEN Frac(1, 1) ELSE Frac(work_done, total_work)

\* the state of the loop after iteration i, from the state s before it and
\* the doubling step d
FastDoublingNext(n, callback, i, s, d, total_work) ==
    [f_k |-> IF BitOf(n, i) = 1 THEN d.f_2k1 ELSE d.f_2k,
     f_k1 |-> IF BitOf(n, i) = 1 THEN Add(d.f_2k, d.f_2k1) ELSE d.f_2k1,
     work_done |-> s.work_done + Pow(4, i),
     nmul |-> s.nmul + 3,
     npool |-> s.npool + (IF d.parallel THEN 3 ELSE 0),
     steps |-> s.steps + 1,
     reports |-> IF total_work > 0
                 THEN report(callback, s.reports,
                             Progress(s.work_done + Pow(4, i), total_work))
                 ELSE s.reports]

FastDoublingIteration(n, threshold, use_parallel, callback, i, s) ==
    After(s, FastDoublingNext(n, callback, i, s,
                              doubling_step(s.f_k, s.f_k1, use_parallel, threshold),
                              Sum4(BitLenInt(n))))

RECURSIVE FastDoublingLoop(_, _, _, _, _)
\* the loop of FastDoubling.calculate_core after its iterations 1..i
FastDoublingLoop(n, threshold, use_parallel, callback, i) ==
    IF i = 0
    THEN [f_k |-> Zero, f_k1 |-> One, work_done |-> 0, nmul |-> 0, npool |-> 0,
          steps |-> 0, reports |-> <<>>]
    ELSE FastDoublingIteration(n, threshold, use_parallel, callback, i,
             FastDoublingLoop(n, threshold, use_parallel, callback, i - 1))

CoreReturns(value, s) ==
    [value |-> value, nmul |-> s.nmul, npool |-> s.npool, steps |-> s.steps,
     reports |-> s.reports]

NoWork == [nmul |-> 0, npool |-> 0, steps |-> 0, reports |-> <<>>]

FastDoublingReturn(s) == CoreReturns(s.f_k, s)

FastDoubling_calculate_core(n, threshold, callback, cpu_count) ==
    IF n = 0 THEN CoreReturns(Zero, NoWork)
    ELSE IF n = 1 THEN CoreReturns(One, NoWork)
    ELSE FastDoublingReturn(FastDoublingLoop(n, threshold, cpu_count > 1 /\ threshold > 0,
                                             callback, BitLenInt(n) - 1))

\* Matrix2x2 as <<a, b, c, d>>
RECURSIVE MaxBits(_)
MaxBits(xs) ==
    IF Len(xs) = 0 THEN 0 ELSE Max2(bit_length(Head(xs)), MaxBits(Tail(xs)))

should_parallelize_multiply(m1, m2, threshold) == MaxBits(m1 \o m2) > threshold

should_parallelize_square(matrix, threshold) == MaxBits(matrix) > threshold

\* _multiply_matrices_sequential and _multiply_matrices_parallel: the same
\* eight products and four sums.
multiply_matrices_legacy(m1, m2) ==
    <<Add(Mul(m1[1], m2[1]), Mul(m1[2], m2[3])),
      Add(Mul(m1[1], m2[2]), Mul(m1[2], m2[4])),
      Add(Mul(m1[3], m2[1]), Mul(m1[4], m2[3])),
      Add(Mul(m1[3], m2[2]), Mul(m1[4], m2[4]))>>

SymmetricSquare(a_squared, b_squared, d_squared, b_times_a_plus_d) ==
    <<Add(a_squared, b_squared), b_times_a_plus_d, b_times_a_plus_d,
      Add(b_squared, d_squared)>>

\* the square of a symmetric matrix, were the off-diagonal cell b * a
\* instead of b * (a + d)
square_symmetric_matrix_without_d(matrix) ==
    SymmetricSquare(Mul(matrix[1], matrix[1]), Mul(matrix[2], matrix[2]),
                    Mul(matrix[4], matrix[4]), Mul(matrix[2], matrix[1]))

\* _square_symmetric_sequential and _square_symmetric_parallel: four products.
square_symmetric_matrix(matrix) ==
    SymmetricSquare(Mul(matrix[1], matrix[1]), Mul(matrix[2], matrix[2]),
                    Mul(matrix[4], matrix[4]), Mul(matrix[2], Add(matrix[1], matrix[4])))

\* the state of the loop after iteration j (0-based), from the state s
\* before it, the new result and the new base
MatrixNext(s, j, bit_len, bitset, parMul, parSq, callback, result, base) ==
    [result |-> result, base |-> base,
     nmul |-> s.nmul + (IF bitset THEN 8 ELSE 0) + (IF j < bit_len - 1 THEN 4 ELSE 0),
     npool |-> s.npool + (IF bitset /\ parMul THEN 8 ELSE 0)
                       + (IF j < bit_len - 1 /\ parSq THEN 4 ELSE 0),
     steps |-> s.steps + 1,
     reports |-> report(callback, s.reports, Frac(j + 1, bit_len))]

MatrixIteration(exponent, threshold, use_parallel, callback, j, s, bit_len, bitset) ==
    After(s, MatrixNext(s, j, bit_len, bitset,
                use_parallel /\ should_parallelize_multiply(s.result, s.base, threshold),
                use_parallel /\ should_parallelize_square(s.base, threshold),
                callback,
                IF bitset THEN multiply_matrices_legacy(s.result, s.base) ELSE s.result,
                IF j < bit_len - 1 THEN square_symmetric_matrix(s.base) ELSE s.base))

RECURSIVE MatrixLoop(_, _, _, _, _)
\* the loop of MatrixExponentiation.calculate_core after its iterations 0..i-1
MatrixLoop(exponent, threshold, use_parallel, callback, i) ==
    IF i = 0
    THEN [result |-> <<One, Zero, Zero, One>>, base |-> <<One, One, One, Zero>>,
          nmul |-> 0, npool |-> 0, steps |-> 0, reports |-> <<>>]
    ELSE MatrixIteration(exponent, threshold, use_parallel, callback, i - 1,
             MatrixLoop(exponent, threshold, use_parallel, callback, i - 1),
             BitLenInt(exponent), (exponent \div Pow(2, i - 1)) % 2 = 1)

MatrixReturn(s) == CoreReturns(s.result[1], s)

MatrixExponentiation_calculate_core(n, threshold, callback, cpu_count) ==
    IF n = 0 THEN CoreReturns(Zero, NoWork)
    ELSE IF n = 1 THEN CoreReturns(One, NoWork)
    ELSE MatrixReturn(MatrixLoop(n - 1, threshold, cpu_count > 1 /\ threshold > 0,
                                 callback, BitLenInt(n - 1)))

CoreNames == {"FastDoubling", "MatrixExponentiation"}

calculate_core(core, n, threshold, callback, cpu_count) ==
    IF core = "FastDoubling" THEN FastDoubling_calculate_core(n, threshold, callback, cpu_count)
    ELSE MatrixExponentiation_calculate_core(n, threshold, callback, cpu_count)

\* what Calculator.calculate returns; core tells whether calculate_core was
\* invoked
Calculated(status, value, nmul, npool, reports, core) ==
    [status |-> status, value |-> value, nmul |-> nmul, npool |-> npool,
     reports |-> reports, core |-> core]

\* the return of Calculator.calculate after its core has returned r
AfterCore(r, callback) ==
    Calculated("ok", r.value, r.nmul, r.npool, report(callback, r.reports, Frac(1, 1)), TRUE)

AfterCoreNoReport(r, callback) ==
    Calculated("ok", r.value, r.nmul, r.npool, r.reports, TRUE)

\* Calculator.calculate with the lookup before the validation of n (a
\* negative index reads the table from its end).
Calculator_calculate_lookup_first(core, n, threshold, callback, cpu_count) ==
    IF n <= MAX_FIB_UINT64
    THEN Calculated("ok", fib_lookup_table(IF n < 0 THEN MAX_FIB_UINT64 + 1 + n ELSE n),
                    0, 0, report(callback, <<>>, Frac(1, 1)), FALSE)
    ELSE AfterCore(calculate_core(core, n, threshold, callback, cpu_count), callback)

\* Calculator.calculate without the final report(1.0) after the core.
Calculator_calculate_no_final_report(core, n, threshold, callback, cpu_count) ==
    IF n < 0 THEN Calculated("ValueError", NoValue, 0, 0, <<>>, FALSE)
    ELSE IF n <= MAX_FIB_UINT64
    THEN Calculated("ok", fib_lookup_table(n), 0, 0, report(callback, <<>>, Frac(1, 1)),
                    FALSE)
    ELSE AfterCoreNoReport(calculate_core(core, n, threshold, callback, cpu_count),
                           callback)

\* Calculator.calculate, were the table read below MAX_FIB_UINT64 only.
Calculator_calculate_below_bound(core, n, threshold, callback, cpu_count) ==
    IF n < 0 THEN Calculated("ValueError", NoValue, 0, 0, <<>>, FALSE)
    ELSE IF n < MAX_FIB_UINT64
    THEN Calculated("ok", fib_lookup_table(n), 0, 0, report(callback, <<>>, Frac(1, 1)),
                    FALSE)
    ELSE AfterCore(calculate_core(core, n, threshold, callback, cpu_count), callback)

\* Calculator.calculate
Calculator_calculate(core, n, threshold, callback, cpu_count) ==
    IF n < 0 THEN Calculated("ValueError", NoValue, 0, 0, <<>>, FALSE)
    ELSE IF n <= MAX_FIB_UINT64
    THEN Calculated("ok", fib_lookup_table(n), 0, 0, report(callback, <<>>, Frac(1, 1)),
                    FALSE)
    ELSE AfterCore(calculate_core(core, n, threshold, callback, cpu_count), callback)

-----------------------------------------------------------------------------
(* The products of a calculation, batch by batch.  A batch is the products *)
(* that one statement of a step issues together and awaits together: the   *)
(* gather of _fib_fast_doubling and its third product, the eight products  *)
(* of a matrix product, the three of a doubling step, the four of a        *)
(* symmetric square.  pool tells that a product goes to the worker pool,   *)
(* gathered that the batch is awaited through asyncio.gather, sleeps that  *)
(* asyncio.sleep(0) is awaited before the batch.                           *)

Product(a, b, pool) == [a |-> a, b |-> b, pool |-> pool]
Batch(step, products, gathered, sleeps) ==
    [step |-> step, products |-> products, gathered |-> gathered, sleeps |-> sleeps]

\* multiply(context, a, b) as a product
Offered(context, a, b) == Product(a, b, submits(context, a, b))

\* _fib_fast_doubling(m) after its recursive call has returned r
FastBatchesOf(context, step, r) ==
    <<Batch(step, <<Offered(context, r.fk, r.fk), Offered(context, r.fk1, r.fk1)>>,
            TRUE, FALSE),
      Batch(step, <<Offered(context, r.fk, Sub(Add(r.fk1, r.fk1), r.fk))>>, FALSE, FALSE)>>

RECURSIVE FastBatches_stopping_at_one(_, _)
\* the products of _fib_fast_doubling, were its recursion to stop at m = 1
\* with the pair (F(1), F(2))
FastBatches_stopping_at_one(context, m) ==
    IF m <= 1 THEN <<>>
    ELSE FastBatches_stopping_at_one(context, m \div 2)
         \o FastBatchesOf(context, BitLenInt(m), fib_fast_doubling_rec(context, m \div 2))

RECURSIVE FastBatches(_, _)
FastBatches(context, m) ==
    IF m = 0 THEN <<>>
    ELSE FastBatches(context, m \div 2)
         \o FastBatchesOf(context, BitLenInt(m), fib_fast_doubling_rec(context, m \div 2))

\* multiply_matrices(A, B)
MatrixBatch(context, step, A, B) ==
    Batch(step, <<Offered(context, A[1], B[1]), Offered(context, A[2], B[3]),
               Offered(context, A[1], B[2]), Offered(context, A[2], B[4]),
               Offered(context, A[3], B[1]), Offered(context, A[4], B[3]),
               Offered(context, A[3], B[2]), Offered(context, A[4], B[4])>>, TRUE, FALSE)

\* matrix_power(A, m) after its recursive call has returned half
MatrixBatchesOf(context, A, m, half) ==
    <<MatrixBatch(context, BitLenInt(m) - 1, half.m, half.m)>>
    \o (IF m % 2 = 0 THEN <<>>
        ELSE <<MatrixBatch(context, BitLenInt(m) - 1, A, SquareOf(context, half).m)>>)

RECURSIVE MatrixBatches(_, _, _)
MatrixBatches(context, A, m) ==
    IF m <= 1 THEN <<>>
    ELSE MatrixBatches(context, A, m \div 2)
         \o MatrixBatchesOf(context, A, m, matrix_power(context, A, m \div 2))

\* a doubling step of FastDoubling from the state s: three products, sent
\* to a process pool when the step is parallel
LegacyFastBatch(i, s, parallel) ==
    <<Batch(i, <<Product(s.f_k, Sub(Add(s.f_k1, s.f_k1), s.f_k), parallel),
                 Product(s.f_k, s.f_k, parallel),
                 Product(s.f_k1, s.f_k1, parallel)>>, FALSE, TRUE)>>

LegacyFastBatchAt(threshold, use_parallel, i, s) ==
    LegacyFastBatch(i, s, doubling_step(s.f_k, s.f_k1, use_parallel, threshold).parallel)

RECURSIVE LegacyFastBatches(_, _, _, _)
LegacyFastBatches(n, threshold, use_parallel, i) ==
    IF i = 0 THEN <<>>
    ELSE LegacyFastBatches(n, threshold, use_parallel, i - 1)
         \o LegacyFastBatchAt(threshold, use_parallel, i,
                              FastDoublingLoop(n, threshold, use_parallel, FALSE, i - 1))

\* an iteration of MatrixExponentiation from the state s: the eight products
\* of result * base when the bit is set, the four of base squared unless the
\* iteration is the last
LegacyMatrixBatch(j, m1, m2, bitset, last, parMul, parSq) ==
    (IF bitset
     THEN <<Batch(j, <<Product(m1[1], m2[1], parMul), Product(m1[2], m2[3], parMul),
                       Product(m1[1], m2[2], parMul), Product(m1[2], m2[4], parMul),
                       Product(m1[3], m2[1], parMul), Product(m1[4], m2[3], parMul),
                       Product(m1[3], m2[2], parMul), Product(m1[4], m2[4], parMul)>>,
                  parMul, TRUE)>>
     ELSE <<>>)
    \o (IF last THEN <<>>
        ELSE <<Batch(j, <<Product(m2[1], m2[1], parSq), Product(m2[2], m2[2], parSq),
                          Product(m2[4], m2[4], parSq),
                          Product(m2[2], Add(m2[1], m2[4]), parSq)>>, parSq, ~bitset)>>)

LegacyMatrixBatchAt(exponent, threshold, use_parallel, j, s) ==
    LegacyMatrixBatch(j + 1, s.result, s.base,
                      (exponent \div Pow(2, j)) % 2 = 1, j = BitLenInt(exponent) - 1,
                      use_parallel /\ should_parallelize_multiply(s.result, s.base, threshold),
                      use_parallel /\ should_parallelize_square(s.base, threshold))

RECURSIVE LegacyMatrixBatches(_, _, _, _)
LegacyMatrixBatches(exponent, threshold, use_parallel, i) ==
    IF i = 0 THEN <<>>
    ELSE LegacyMatrixBatches(exponent, threshold, use_parallel, i - 1)
         \o LegacyMatrixBatchAt(exponent, threshold, use_parallel, i - 1,
                                MatrixLoop(exponent, threshold, use_parallel, FALSE, i - 1))

\* the batches of the evaluator fn on n; Calculator.calculate reads its table
\* up to MAX_FIB_UINT64
Plan(fn, n, threshold, cpu_count) ==
    IF n <= 0 \/ (fn \in CoreNames /\ n <= MAX_FIB_UINT64) \/ fn = "iterative" THEN <<>>
    ELSE IF fn = "fast" THEN FastBatches(CalculationContext(threshold, TRUE, FALSE), n)
    ELSE IF fn = "matrix"
    THEN MatrixBatches(CalculationContext(threshold, TRUE, FALSE),
                       <<One, One, One, Zero>>, n - 1)
    ELSE IF fn = "FastDoubling"
    THEN LegacyFastBatches(n, threshold, cpu_count > 1 /\ threshold > 0, BitLenInt(n) - 1)
    ELSE LegacyMatrixBatches(n - 1, threshold, cpu_count > 1 /\ threshold > 0,
                             BitLenInt(n - 1))

\* Where a coroutine gives the event loop back: it keeps the loop's thread
\* until it awaits something that is not complete, which is sleep(0)
\* ("sleep"), products in the pool ("pool"), gathered child tasks
\* ("children").  The awaits of a batch, in order:
AwaitsOf(batch) ==
    (IF batch.sleeps THEN <<"sleep">> ELSE <<>>)
    \o (IF \E i \in 1..Len(batch.products) : batch.products[i].pool THEN <<"pool">>
        ELSE IF batch.gathered THEN <<"children">>
        ELSE <<>>)

RECURSIVE AwaitsIn(_)
AwaitsIn(batches) ==
    IF Len(batches) = 0 THEN <<>> ELSE AwaitsOf(Head(batches)) \o AwaitsIn(Tail(batches))

-----------------------------------------------------------------------------
(* The asyncio orchestration.  One thread runs the event loop and every    *)
(* coroutine: a task keeps the thread (cur) from the moment the loop runs  *)
(* it until it awaits something incomplete or ends.  Callbacks of the loop *)
(* (timers, wake-ups) run only while cur = "loop".  Time passes at any     *)
(* moment, also while a task computes: a timer that is armed becomes due.  *)
(*                                                                         *)
(* A run is one algorithm under its timeout: _run_single_algorithm,        *)
(* _task_wrapper of _run_all_algorithms, or a task of execute_calculations *)
(* (asyncio.wait_for around Calculator.calculate).  Its pc:                *)
(*   absent, created (task scheduled), entering, calling, awaiting,        *)
(*   woken (wake-up scheduled), computing, returned, raised, cancelled,    *)
(*   finally (the "done" message is still to be put), ended.               *)

ALGORITHM_REGISTRY == <<"iterative", "matrix", "fast">>
CALCULATOR_REGISTRY == <<"FastDoubling", "MatrixExponentiation">>

AlgoNames == {"iterative", "matrix", "fast"}
Runs == AlgoNames \cup CoreNames
Legacy(r) == r \in CoreNames

NoRun ==
    [pc |-> "absent", k |-> 0, awaited |-> "none", cancel |-> "no", timer |-> "unset",
     late |-> FALSE, starts |-> 0, out |-> <<>>, exc |-> "none",
     status |-> "none", value |-> NoValue, awaits |-> <<>>, context |-> "none"]

\* main_async builds the context around its process pool
AppContext(a) == CalculationContext(a.threshold, TRUE, a.details)

\* what the algorithm of the run r evaluates to on the arguments a
Evaluation(r, a) ==
    IF r = "iterative" THEN fib_iterative(a.n)
    ELSE IF r = "matrix" THEN fib_matrix(AppContext(a), a.n)
    ELSE IF r = "fast" THEN fib_fast_doubling(AppContext(a), a.n)
    ELSE Calculator_calculate(r, a.n, a.threshold, FALSE, a.cpu_count)

\* the awaits at which the run r is suspended, in order; fib_iterative is
\* run by a thread
Awaits(r, a) ==
    IF r = "iterative" THEN <<"thread">>
    ELSE AwaitsIn(Plan(r, a.n, a.threshold, a.cpu_count))

\* the messages fib_fast_doubling puts on the progress queue, all of them
\* before its first await
RECURSIVE Puts(_)
Puts(k) == IF k = 0 THEN <<>> ELSE <<"1">> \o Puts(k - 1)

\* the run after the evaluator has gone on from its await number k: at the
\* next await, or returned with its value
Proceeded(rec, k) ==
    IF k < Len(rec.awaits)
    THEN [rec EXCEPT !.pc = "awaiting", !.k = k + 1, !.awaited = rec.awaits[k + 1]]
    ELSE [rec EXCEPT !.pc = "returned", !.late = rec.timer \in {"due", "fired"}]

\* the run once its algorithm has been called: what the call evaluates to
\* and the awaits on its way
\* The context the algorithm of the run r is called with: the one context
\* that main_async has built, for fib_fast_doubling and fib_matrix; none for
\* fib_iterative and for the legacy calculators.
ContextOf(r) == IF r \in {"fast", "matrix"} THEN "main_async" ELSE "none"

Called(rec, evaluation, awaits) ==
    [rec EXCEPT !.starts = @ + 1, !.status = evaluation.status,
                !.value = evaluation.value, !.awaits = awaits]

\* the call goes on to its first await or its return, unless it raises at
\* once; only fib_iterative is run by a thread, and raises there
Begun(r, rec) ==
    IF r # "iterative" /\ rec.status # "ok" THEN [rec EXCEPT !.pc = "raised"]
    ELSE Proceeded(rec, 0)

\* only TimeoutError is caught
Caught_timeout_only(exc) == IF exc = "TimeoutError" THEN "timeout" ELSE "uncaught"

\* what the except clauses around the timeout block make of the exception
\* exc: the report they print, or "uncaught"
Caught(exc) ==
    IF exc = "TimeoutError" THEN "timeout"
    ELSE IF exc = "Exception" THEN "error"
    ELSE "uncaught"

Report(kind, value) == [kind |-> kind, value |-> value]

\* the run after its wrapper has left the timeout block by the exception exc
\* ("none": by its end); the timer's handle is cancelled on the way out
Left(rec, handled, exc, value, entry) ==
    [rec EXCEPT !.pc = IF entry = "bar" THEN "finally" ELSE "ended",
                !.timer = IF rec.timer \in {"armed", "due"} THEN "cancelled" ELSE rec.timer,
                !.out = IF handled = "uncaught" THEN rec.out
                        ELSE Append(rec.out, Report(handled, value)),
                !.exc = IF handled = "uncaught" THEN exc ELSE "none"]

\* The loop runs the next step of the task of r.  A cancellation is thrown
\* into the coroutine at its await, so is the exception of what it awaited.
LoopRuns(r) ==
    /\ cur = "loop"
    /\ run[r].pc \in {"created", "woken"}
    /\ cur' = r
    /\ run' = [run EXCEPT ![r].pc =
                  IF run[r].cancel # "no" THEN "cancelled"
                  ELSE IF run[r].pc = "created" THEN "entering"
                  ELSE IF run[r].awaited = "failed" THEN "raised"
                  ELSE IF run[r].awaited = "start" THEN "calling"
                  ELSE "computing"]
    /\ UNCHANGED <<args, main, bar, queue, evalVars, poolVars>>

\* async with asyncio.timeout(timeout): the timer is scheduled; a deadline
\* that is not in the future is due at once.  asyncio.wait_for(coroutine,
\* timeout) schedules its timer and a task for the coroutine, and waits.
EnterTimeout(r) ==
    /\ cur = r
    /\ run[r].pc = "entering"
    /\ run' = [run EXCEPT ![r].pc = IF Legacy(r) THEN "woken" ELSE "calling",
                          ![r].awaited = IF Legacy(r) THEN "start" ELSE "none",
                          ![r].timer = IF args.timeout > 0 THEN "armed" ELSE "due"]
    /\ cur' = IF Legacy(r) THEN "loop" ELSE r
    /\ UNCHANGED <<args, main, bar, queue, evalVars, poolVars>>

\* The algorithm is called and runs to its first await, its return or its
\* exception.  fib_fast_doubling puts its progress messages on the way.
CallEvaluator(r) ==
    /\ cur = r
    /\ run[r].pc = "calling"
    /\ run' = [run EXCEPT ![r] =
                  Begun(r, Called([run[r] EXCEPT !.context = ContextOf(r)],
                                  Evaluation(r, args), Awaits(r, args)))]
    /\ cur' = IF run'[r].pc = "awaiting" THEN "loop" ELSE r
    /\ queue' = IF r = "fast" /\ args.n > 0 /\ args.details
                THEN queue \o Puts(BitLenInt(args.n) + 1)
                ELSE queue
    /\ UNCHANGED <<args, main, bar, evalVars, poolVars>>

\* The evaluator, resumed after an await, runs to its next await or its return.
Continue(r) ==
    /\ cur = r
    /\ run[r].pc = "computing"
    /\ run' = [run EXCEPT ![r] = Proceeded(run[r], run[r].k)]
    /\ cur' = IF run[r].k < Len(run[r].awaits) THEN "loop" ELSE r
    /\ UNCHANGED <<args, main, bar, queue, evalVars, poolVars>>

\* The loop has run the gathered child tasks (or the step after sleep(0)).
ChildrenDone(r) ==
    /\ cur = "loop"
    /\ run[r].pc = "awaiting"
    /\ run[r].awaited \in {"children", "sleep"}
    /\ run' = [run EXCEPT ![r].pc = "woken", ![r].awaited = "done"]
    /\ UNCHANGED <<args, cur, main, bar, queue, evalVars, poolVars>>

\* A worker process or thread returns what the run awaits.
WorkerDone(r) ==
    /\ run[r].pc = "awaiting"
    /\ run[r].awaited \in {"pool", "thread"}
    /\ run[r].awaited = "thread" => run[r].status = "ok"
    /\ run' = [run EXCEPT ![r].pc = "woken", ![r].awaited = "done"]
    /\ UNCHANGED <<args, cur, main, bar, queue, evalVars, poolVars>>

\* A worker fails: the process pool breaks, or fib_iterative raises in its
\* thread.
WorkerFails(r) ==
    /\ run[r].pc = "awaiting"
    /\ run[r].awaited \in {"pool", "thread"}
    /\ run[r].awaited = "thread" => run[r].status # "ok"
    /\ run' = [run EXCEPT ![r].pc = "woken", ![r].awaited = "failed"]
    /\ UNCHANGED <<args, cur, main, bar, queue, evalVars, poolVars>>

\* The deadline of the run's timer is reached.
Tick(r) ==
    /\ run[r].timer = "armed"
    /\ run' = [run EXCEPT ![r].timer = "due"]
    /\ UNCHANGED <<args, cur, main, bar, queue, evalVars, poolVars>>

\* The loop runs the callback of a due timer.  That of asyncio.timeout
\* cancels the task; that of wait_for wakes wait_for up.
TimerCallback(r) ==
    /\ cur = "loop"
    /\ run[r].timer = "due"
    /\ run' = [run EXCEPT
                  ![r].timer = "fired",
                  ![r].cancel = IF Legacy(r) \/ run[r].cancel # "no" THEN @ ELSE "timeout",
                  ![r].pc = IF Legacy(r) THEN @ ELSE "woken"]
    /\ UNCHANGED <<args, cur, main, bar, queue, evalVars, poolVars>>

\* wait_for, woken by its timer, cancels the task of the coroutine unless
\* that task is done.
WaitForExpired(r) ==
    /\ cur = "loop"
    /\ Legacy(r)
    /\ run[r].timer = "fired"
    /\ run[r].cancel = "no"
    /\ run[r].pc \in {"awaiting", "woken"}
    /\ run' = [run EXCEPT ![r].cancel = "timeout", ![r].pc = "woken"]
    /\ UNCHANGED <<args, cur, main, bar, queue, evalVars, poolVars>>

\* the runs after the wrapper of r has ended as rec: a task of the TaskGroup
\* of _run_all_algorithms that ends by an exception makes the group cancel
\* the tasks that have not ended
Ended(r, rec) ==
    [x \in Runs |->
        IF x = r THEN rec
        ELSE IF args.entry = "all" /\ rec.exc # "none" /\ run[x].pc \notin {"absent", "ended"}
        THEN [run[x] EXCEPT !.cancel = "group",
                            !.pc = IF @ = "awaiting" THEN "woken" ELSE @]
        ELSE run[x]]

Leaves(r, handled, exc, value) ==
    /\ run' = Ended(r, Left(run[r], handled, exc, value, args.entry))
    /\ cur' = IF args.entry = "bar" THEN r ELSE "loop"
    /\ UNCHANGED <<args, main, bar, queue, evalVars, poolVars>>

\* The algorithm has returned: the result line is printed inside the timeout
\* block (execute_calculations: the task returns the value; _task_wrapper:
\* the line does not hold the value).
ReturnsResult(r) ==
    /\ cur = r
    /\ run[r].pc = "returned"
    /\ Leaves(r, "result", "none", IF args.entry = "all" THEN NoValue ELSE run[r].value)

\* CancelledError leaves the timeout block: a TimeoutError if the block's
\* timer has cancelled the task.
TimesOut(r) ==
    /\ cur = r
    /\ run[r].pc = "cancelled"
    /\ IF run[r].cancel = "timeout"
       THEN Leaves(r, Caught("TimeoutError"), "TimeoutError", NoValue)
       ELSE Leaves(r, "uncaught", "CancelledError", NoValue)

\* The algorithm has raised: ValueError, or the failure of a worker.
Fails(r) ==
    /\ cur = r
    /\ run[r].pc = "raised"
    /\ Leaves(r, Caught("Exception"), "Exception", NoValue)

Range(seq) == {seq[i] : i \in 1..Len(seq)}

NoMain == [pc |-> "none", i |-> 0, results |-> <<>>]
\* the task of progress_bar_manager: n and total are those of its tqdm bar,
\* updates the arguments of pbar.update so far, forced tells that the bar was
\* set to its total, stop why the manager left its loop
NoBar ==
    [pc |-> "absent", timer |-> "unset", n |-> 0, done |-> 0, total |-> 0,
     updates |-> <<>>, forced |-> FALSE, stop |-> "none"]

\* a message of the progress queue: a number of steps ("1", "2"), "done", or
\* anything else ("x")
IsInt(message) == message \in {"1", "2"}
Amount(message) == IF message = "1" THEN 1 ELSE IF message = "2" THEN 2 ELSE 0

\* int.bit_length() of a machine integer (that of its absolute value)
IntBitLength(k) == BitLenInt(IF k < 0 THEN 0 - k ELSE k)

\* execute_calculations and _run_all_algorithms create one task for each
\* algorithm, main_async one for the progress bar and one for the algorithm;
\* then they wait.
CreateTasks ==
    /\ cur = "main"
    /\ main.pc = "start"
    /\ run' = [r \in Runs |->
                  IF r \in Range(args.algos) THEN [run[r] EXCEPT !.pc = "created"]
                  ELSE run[r]]
    /\ bar' = IF args.entry = "bar"
              THEN [bar EXCEPT !.pc = "created", !.total = IntBitLength(args.n)]
              ELSE bar
    /\ main' = [main EXCEPT !.pc = "waiting", !.i = 1]
    /\ cur' = "loop"
    /\ UNCHANGED <<args, queue, evalVars, poolVars>>

\* CalculationResult(name, result, duration, error) without the duration
CalculationResult(name, ended) ==
    [name |-> name,
     result |-> ended.value,
     error |-> IF ended.kind = "result" THEN "None"
               ELSE IF ended.kind = "timeout" THEN "Timeout"
               ELSE "str(e)"]

\* execute_calculations awaits its tasks in turn and records what each ended
\* with.
Collect ==
    /\ cur = "loop"
    /\ args.entry = "execute"
    /\ main.pc = "waiting"
    /\ run[args.algos[main.i]].pc = "ended"
    /\ main' = [pc |-> IF main.i = Len(args.algos) THEN "returned" ELSE "waiting",
                i |-> main.i + 1,
                results |-> Append(main.results,
                                   CalculationResult(args.algos[main.i],
                                                     run[args.algos[main.i]].out[1]))]
    /\ UNCHANGED <<args, cur, run, bar, queue, evalVars, poolVars>>

-----------------------------------------------------------------------------
(* Specification Spec: one call of an evaluator on drawn arguments.        *)

MaxN == 100
NegN == 2
Thresholds == {0, 8, 22, 30}
CpuCounts == {1, 2}

NoCall == [fn |-> "none"]

Init ==
    /\ pc = "ready"
    /\ inp \in [n : (0 - NegN)..MaxN, threshold : Thresholds]
    /\ call = NoCall
    /\ AppIdle
    /\ PoolIdle

CallFibIterative ==
    /\ pc = "ready"
    /\ pc' = "returned"
    /\ call' = [fn |-> "fib_iterative", r |-> fib_iterative(inp.n)]
    /\ UNCHANGED <<inp, appVars, poolVars>>

CallFibMatrix ==
    /\ pc = "ready"
    /\ \E executor \in BOOLEAN, progress_queue \in BOOLEAN :
          LET context == CalculationContext(inp.threshold, executor, progress_queue)
          IN call' = [fn |-> "fib_matrix", context |-> context,
                      r |-> fib_matrix(context, inp.n)]
    /\ pc' = "returned"
    /\ UNCHANGED <<inp, appVars, poolVars>>

CallFibFastDoubling ==
    /\ pc = "ready"
    /\ \E executor \in BOOLEAN, progress_queue \in BOOLEAN :
          LET context == CalculationContext(inp.threshold, executor, progress_queue)
          IN call' = [fn |-> "fib_fast_doubling", context |-> context,
                      r |-> fib_fast_doubling(context, inp.n)]
    /\ pc' = "returned"
    /\ UNCHANGED <<inp, appVars, poolVars>>

CallCalculate ==
    /\ pc = "ready"
    /\ \E core \in CoreNames, callback \in BOOLEAN, cpu_count \in CpuCounts :
          call' = [fn |-> "Calculator.calculate", core |-> core, callback |-> callback,
                   cpu_count |-> cpu_count,
                   r |-> Calculator_calculate(core, inp.n, inp.threshold, callback,
                                              cpu_count)]
    /\ pc' = "returned"
    /\ UNCHANGED <<inp, appVars, poolVars>>

Next ==
    \/ CallFibIterative
    \/ CallFibMatrix
    \/ CallFibFastDoubling
    \/ CallCalculate

Spec == Init /\ [][Next]_vars

Returned(fn) == pc = "returned" /\ call.fn = fn

-----------------------------------------------------------------------------
\* C1: for every n from 0 up to the bound, fib_fast_doubling(context, n)
\* and fib_matrix(context, n) return the same value, and that value is
\* fib_iterative(n).
C1_EvaluatorsAgree ==
    Returned("fib_fast_doubling") /\ inp.n >= 0 =>
        /\ call.r.status = "ok"
        /\ call.r.value = fib_matrix(call.context, inp.n).value
        /\ call.r.value = fib_iterative(inp.n).value

\* F(100) = 354224848179261915075 returned by fib_fast_doubling with
\* products sent to the executor.
C1_Witness ==
    /\ Returned("fib_fast_doubling")
    /\ inp.n = 100
    /\ call.r.npool > 0
    /\ call.r.value = <<49091, 50580, 30375, 13275, 19>>
    /\ call.r.value = fib_matrix(call.context, inp.n).value

\* C2: for every n >= 0, Calculator(FastDoubling).calculate(n) and
\* Calculator(MatrixExponentiation).calculate(n) return the same value.
C2_CalculatorsAgree ==
    Returned("Calculator.calculate") /\ call.core = "FastDoubling" /\ inp.n >= 0 =>
        call.r.value = Calculator_calculate("MatrixExponentiation", inp.n, inp.threshold,
                                            call.callback, call.cpu_count).value

\* C3: for every n < 0 each evaluator fails with ValueError, returns no
\* value, has requested no multiplication, has emitted no progress message
\* or report, and Calculator has not invoked its core.
C3_NegativeRejected ==
    pc = "returned" /\ inp.n < 0 =>
        /\ call.r.status = "ValueError"
        /\ call.r.value = NoValue
        /\ call.r.nmul = 0
        /\ call.r.npool = 0
        /\ call.fn = "Calculator.calculate" => call.r.reports = <<>> /\ ~call.r.core
        /\ call.fn # "Calculator.calculate" => call.r.puts = 0

C3_Witness ==
    /\ Returned("Calculator.calculate")
    /\ inp.n < 0
    /\ call.callback
    /\ call.r.status = "ValueError"

\* C4: a successful Calculator.calculate with a callback delivers a
\* non-empty sequence of progress values, each in [0, 1], non-decreasing,
\* the last one exactly 1.0.
C4_ProgressSequence ==
    Returned("Calculator.calculate") /\ call.r.status = "ok" /\ call.callback =>
        LET reports == call.r.reports
        IN /\ Len(reports) > 0
           /\ \A i \in 1..Len(reports) : InUnit(reports[i])
           /\ \A i \in 1..(Len(reports) - 1) : FracLeq(reports[i], reports[i + 1])
           /\ IsOne(reports[Len(reports)])

C4_Witness ==
    /\ Returned("Calculator.calculate")
    /\ call.core = "FastDoubling"
    /\ inp.n = 100
    /\ call.callback
    /\ Len(call.r.reports) = 7
    /\ IsOne(call.r.reports[7])

-----------------------------------------------------------------------------
(* Specification SpecRun: one call of _run_single_algorithm, or one call   *)
(* of execute_calculations on one or on both calculators.                  *)

RunNs == {-1, 0, 1, 2, 5}
RunThresholds == {0, 100}
LegacyNs == {93, 94}
LegacyThresholds == {0, 8}

SingleArgs ==
    [entry : {"single"}, algos : {<<a>> : a \in AlgoNames}, n : RunNs, timeout : {0, 1},
     threshold : RunThresholds, details : BOOLEAN, cpu_count : {2}]

ExecuteArgs ==
    [entry : {"execute"},
     algos : {<<"FastDoubling">>, <<"MatrixExponentiation">>, CALCULATOR_REGISTRY},
     n : LegacyNs, timeout : {1}, threshold : LegacyThresholds, details : {FALSE},
     cpu_count : {2}]

InitRun ==
    /\ args \in SingleArgs \cup ExecuteArgs
    /\ cur = IF args.entry = "single" THEN args.algos[1] ELSE "main"
    /\ run = [r \in Runs |->
                 IF args.entry = "single" /\ r = args.algos[1]
                 THEN [NoRun EXCEPT !.pc = "entering"]
                 ELSE NoRun]
    /\ main = IF args.entry = "single" THEN NoMain ELSE [NoMain EXCEPT !.pc = "start"]
    /\ bar = NoBar
    /\ queue = <<>>
    /\ EvalIdle
    /\ PoolIdle

NextRun ==
    \/ CreateTasks
    \/ Collect
    \/ \E r \in Runs : LoopRuns(r)
    \/ \E r \in Runs : EnterTimeout(r)
    \/ \E r \in Runs : CallEvaluator(r)
    \/ \E r \in Runs : Continue(r)
    \/ \E r \in Runs : ChildrenDone(r)
    \/ \E r \in Runs : WorkerDone(r)
    \/ \E r \in Runs : WorkerFails(r)
    \/ \E r \in Runs : Tick(r)
    \/ \E r \in Runs : TimerCallback(r)
    \/ \E r \in Runs : WaitForExpired(r)
    \/ \E r \in Runs : ReturnsResult(r)
    \/ \E r \in Runs : TimesOut(r)
    \/ \E r \in Runs : Fails(r)

SpecRun == InitRun /\ [][NextRun]_vars

\* C5: a run whose deadline was reached before its algorithm had returned
\* ends with a timeout report and no value (execute_calculations records
\* result None and error "Timeout" for it); every run that has ended has
\* exactly one report: a result, a timeout or an error; and no result is
\* delivered once the timer's callback has run.
C5_TimeoutYieldsNoResult ==
    /\ \A r \in Runs : run[r].pc = "ended" =>
          /\ Len(run[r].out) = 1
          /\ run[r].out[1].kind \in {"result", "timeout", "error"}
          /\ run[r].late \/ run[r].timer = "fired" =>
                run[r].out[1] = Report("timeout", NoValue)
    /\ \A i \in 1..Len(main.results) :
          run[main.results[i].name].late =>
              main.results[i].result = NoValue /\ main.results[i].error = "Timeout"

-----------------------------------------------------------------------------
(* Specification SpecPool: one calculation, product by product.  The       *)
(* calculation issues the products of a batch, awaits them, combines them  *)
(* and goes to the next batch; the products sent to the worker pool end in *)
(* any order, and may fail.                                                *)

MaxFailures == 1

PoolArgs ==
    [fn : {"fast", "matrix"}, n : RunNs, threshold : RunThresholds, details : {FALSE},
     cpu_count : {2}]
    \cup [fn : CoreNames, n : LegacyNs, threshold : LegacyThresholds, details : {FALSE},
          cpu_count : {2}]

\* the call of the evaluator a.fn, before its first statement; outcome and
\* result are what the call comes to when no product fails
Started(a, evaluation, plan) ==
    [fn |-> a.fn, n |-> a.n, threshold |-> a.threshold, plan |-> plan, b |-> 0,
     combined |-> 0, pc |-> "ready", outcome |-> evaluation.status,
     result |-> evaluation.value, status |-> "none", value |-> NoValue, raisedAt |-> 0]

\* the products of the batch number b, none of them run yet
Issued(batch, b) ==
    [i \in 1..Len(batch.products) |->
        [batch |-> b, step |-> batch.step, a |-> batch.products[i].a,
         b |-> batch.products[i].b, pool |-> batch.products[i].pool, state |-> "created"]]

Failures == Cardinality({i \in 1..Len(prods) : prods[i].state = "failed"})

\* the products of the batch the calculation awaits
Current == SelectSeq(prods, LAMBDA p : p.batch = calc.b)

\* an await that returns as soon as one product is done
Awaited_first_completed(inOrder, ps) ==
    IF \E i \in 1..Len(ps) : ps[i].state = "done" THEN "done" ELSE "pending"

\* an await that takes a failed product for a done one
Awaited_return_exceptions(inOrder, ps) ==
    IF \A i \in 1..Len(ps) : ps[i].state \in {"done", "failed"} THEN "done" ELSE "pending"

\* What awaiting the products ps comes to: "pending" while the coroutine is
\* suspended, "done" when it resumes with every product, "failed" when it
\* resumes with an exception.  asyncio.gather, and the await of one product,
\* raise the first failure; _parallel_multiply awaits its futures in order.
Awaited(inOrder, ps) ==
    IF \E i \in 1..Len(ps) : ps[i].state = "created" THEN "pending"
    ELSE IF \A i \in 1..Len(ps) : ps[i].state = "done" THEN "done"
    ELSE IF inOrder
    THEN (IF \E i \in 1..Len(ps) : /\ ps[i].state = "failed"
                                   /\ \A j \in 1..(i - 1) : ps[j].state = "done"
          THEN "failed" ELSE "pending")
    ELSE IF \E i \in 1..Len(ps) : ps[i].state = "failed" THEN "failed"
    ELSE "pending"

\* the next statement of the step issues its products
Issue ==
    /\ calc.pc = "ready"
    /\ calc.b < Len(calc.plan)
    /\ calc' = [calc EXCEPT !.b = @ + 1, !.pc = "awaiting"]
    /\ prods' = prods \o Issued(calc.plan[calc.b + 1], calc.b + 1)
    /\ UNCHANGED <<evalVars, appVars>>

\* the product i is computed in place, or handed to the pool: multiply, the
\* loop.run_in_executor calls of _parallel_multiply and of the matrix products
RunProduct(i) ==
    /\ calc.pc = "awaiting"
    /\ prods[i].state = "created"
    /\ \A j \in 1..(i - 1) : prods[j].state # "created"
    /\ prods' = [prods EXCEPT ![i].state = IF prods[i].pool THEN "running" ELSE "done"]
    /\ UNCHANGED <<calc, evalVars, appVars>>

\* a worker returns the product i
ProductDone(i) ==
    /\ prods[i].state = "running"
    /\ prods' = [prods EXCEPT ![i].state = "done"]
    /\ UNCHANGED <<calc, evalVars, appVars>>

\* the task of the product i fails in the pool
ProductFails(i) ==
    /\ prods[i].state = "running"
    /\ Failures < MaxFailures
    /\ prods' = [prods EXCEPT ![i].state = "failed"]
    /\ UNCHANGED <<calc, evalVars, appVars>>

\* the await returns the products, and the step combines them
Combine ==
    /\ calc.pc = "awaiting"
    /\ Awaited(calc.fn = "FastDoubling", Current) = "done"
    /\ calc' = [calc EXCEPT !.pc = "ready", !.combined = calc.b]
    /\ UNCHANGED <<prods, evalVars, appVars>>

\* The await raises.  FastDoubling and MatrixExponentiation await inside
\* "with ProcessPoolExecutor", whose exit waits for the workers, and
\* Calculator.calculate raises RuntimeError from the exception.
Raise ==
    /\ calc.pc = "awaiting"
    /\ Awaited(calc.fn = "FastDoubling", Current) = "failed"
    /\ Legacy(calc.fn) => \A i \in 1..Len(prods) : prods[i].state # "running"
    /\ calc' = [calc EXCEPT !.pc = "raised",
                            !.status = IF Legacy(calc.fn) THEN "RuntimeError" ELSE "Exception",
                            !.raisedAt = calc.plan[calc.b].step]
    /\ UNCHANGED <<prods, evalVars, appVars>>

\* the evaluator returns, or raises for an n it rejects
Return ==
    /\ calc.pc = "ready"
    /\ calc.b = Len(calc.plan)
    /\ calc' = IF calc.outcome = "ok"
               THEN [calc EXCEPT !.pc = "returned", !.status = "ok", !.value = calc.result]
               ELSE [calc EXCEPT !.pc = "raised", !.status = calc.outcome]
    /\ UNCHANGED <<prods, evalVars, appVars>>

InitPool ==
    /\ \E a \in PoolArgs :
          calc = Started(a, Evaluation(a.fn, a), Plan(a.fn, a.n, a.threshold, a.cpu_count))
    /\ prods = <<>>
    /\ EvalIdle
    /\ AppIdle

NextPool ==
    \/ Issue
    \/ \E i \in 1..Len(prods) : RunProduct(i)
    \/ \E i \in 1..Len(prods) : ProductDone(i)
    \/ \E i \in 1..Len(prods) : ProductFails(i)
    \/ Combine
    \/ Raise
    \/ Return

SpecPool == InitPool /\ [][NextPool]_vars

\* C6: within one calculation no product of a later step is computed in
\* place or handed to the pool until every product of every earlier step is
\* done and combined, whatever the order in which the workers end; only
\* products of one step are in the pool together.
C6_StepsSequential ==
    \A i, j \in 1..Len(prods) :
        prods[i].step < prods[j].step /\ prods[j].state # "created"
            => prods[i].state = "done" /\ prods[i].batch <= calc.combined

\* two products of one step, not the first, are in the pool together, and a
\* third one of that step has ended before them
C6_Witness ==
    \E i, j, k \in 1..Len(prods) :
        /\ i < j
        /\ prods[i].step = prods[j].step /\ prods[k].step = prods[i].step
        /\ prods[i].step >= 2
        /\ prods[i].state = "running" /\ prods[j].state = "running"
        /\ prods[k].state = "done" /\ prods[k].pool /\ k > j

\* C7: once a product handed to the pool has failed, the calculation goes on
\* to no further batch, combines nothing of the batch of the failed product,
\* and ends only by raising in the step of that product, with an error and
\* without a value; a calculation that returns a value has had no failure.
C7_PoolFailureRaised ==
    /\ calc.pc = "returned" => Failures = 0 /\ calc.value # NoValue
    /\ \A i \in 1..Len(prods) :
          prods[i].state = "failed" =>
              /\ calc.pc \in {"awaiting", "raised"}
              /\ calc.b = prods[i].batch
              /\ calc.combined < prods[i].batch
              /\ calc.value = NoValue
              /\ calc.pc = "raised" =>
                    /\ calc.status \in {"Exception", "RuntimeError"}
                    /\ calc.raisedAt = prods[i].step

\* a calculation has raised for a product that failed after another product
\* of its step was done
C7_Witness ==
    /\ calc.pc = "raised"
    /\ \E i, j \in 1..Len(prods) :
          /\ prods[i].state = "failed" /\ prods[i].step >= 2
          /\ prods[j].state = "done" /\ prods[j].pool /\ prods[j].batch = prods[i].batch

-----------------------------------------------------------------------------
(* Specification FairSpecMain: main_async on one algorithm with the        *)
(* progress bar, and on all algorithms.  With the bar, the TaskGroup of    *)
(* main_async holds the task of progress_bar_manager and the task of       *)
(* _run_single_algorithm_with_progress_shutdown; bar.n is the position of  *)
(* the bar, bar.done counts the "done" messages put.  On all               *)
(* algorithms, the TaskGroup of _run_all_algorithms holds one task for     *)
(* each algorithm.                                                         *)

\* a wrapper that puts "done" only after a result
PutDone_after_result(r) ==
    /\ cur = r
    /\ run[r].pc = "finally"
    /\ run' = [run EXCEPT ![r].pc = "ended"]
    /\ cur' = "loop"
    /\ queue' = IF run[r].out[1].kind = "result" THEN Append(queue, "done") ELSE queue
    /\ bar' = IF run[r].out[1].kind = "result" THEN [bar EXCEPT !.done = @ + 1] ELSE bar
    /\ UNCHANGED <<args, main, evalVars, poolVars>>

\* finally: await context.progress_queue.put("done"); the queue is
\* unbounded, so the put does not wait, and the task ends
PutDone(r) ==
    /\ cur = r
    /\ run[r].pc = "finally"
    /\ run' = [run EXCEPT ![r].pc = "ended"]
    /\ cur' = "loop"
    /\ queue' = Append(queue, "done")
    /\ bar' = [bar EXCEPT !.done = @ + 1]
    /\ UNCHANGED <<args, main, evalVars, poolVars>>

\* progress_bar_manager starts: asyncio.wait_for(queue.get(), timeout=1.0)
BarStart ==
    /\ cur = "loop"
    /\ bar.pc = "created"
    /\ bar' = [bar EXCEPT !.pc = "getting", !.timer = "armed"]
    /\ UNCHANGED <<args, cur, run, main, queue, evalVars, poolVars>>

\* one second has passed since wait_for was called
BarTick ==
    /\ bar.timer = "armed"
    /\ bar' = [bar EXCEPT !.timer = "due"]
    /\ UNCHANGED <<args, cur, run, main, queue, evalVars, poolVars>>

\* queue.get() returns a message: "done" ends the manager, a number moves
\* the bar and the manager waits for the next message
BarReceive ==
    /\ cur = "loop"
    /\ bar.pc = "getting"
    /\ queue # <<>>
    /\ queue' = Tail(queue)
    /\ bar' = IF Head(queue) = "done"
              THEN [bar EXCEPT !.pc = "ended", !.timer = "cancelled", !.n = bar.total,
                               !.forced = TRUE, !.stop = "done"]
              ELSE IF IsInt(Head(queue))
              THEN [bar EXCEPT !.n = @ + Amount(Head(queue)),
                               !.updates = Append(@, Head(queue)), !.timer = "armed"]
              ELSE [bar EXCEPT !.timer = "armed"]
    /\ UNCHANGED <<args, cur, run, main, evalVars, poolVars>>

\* the manager, were it to end at every TimeoutError
BarTimeout_ignoring_queue ==
    /\ cur = "loop"
    /\ bar.pc = "getting"
    /\ bar.timer = "due"
    /\ bar' = [bar EXCEPT !.pc = "ended", !.timer = "fired", !.stop = "timeout"]
    /\ UNCHANGED <<args, cur, run, main, queue, evalVars, poolVars>>

\* wait_for raises TimeoutError: the manager ends if the queue is empty, and
\* waits again if it is not
BarTimeout ==
    /\ cur = "loop"
    /\ bar.pc = "getting"
    /\ bar.timer = "due"
    /\ bar' = IF queue = <<>>
              THEN [bar EXCEPT !.pc = "ended", !.timer = "fired", !.stop = "timeout"]
              ELSE [bar EXCEPT !.timer = "armed"]
    /\ UNCHANGED <<args, cur, run, main, queue, evalVars, poolVars>>

\* async with asyncio.TaskGroup(): the block is left when every task of the
\* group has ended, by an exception group if a task has ended by an exception
GroupExit ==
    /\ cur = "loop"
    /\ args.entry \in {"bar", "all"}
    /\ main.pc = "waiting"
    /\ \A r \in Range(args.algos) : run[r].pc = "ended"
    /\ args.entry = "bar" => bar.pc = "ended"
    /\ main' = [main EXCEPT !.pc = IF \E r \in Runs : run[r].exc # "none"
                                   THEN "raising" ELSE "exiting"]
    /\ UNCHANGED <<args, cur, run, bar, queue, evalVars, poolVars>>

\* with ProcessPoolExecutor() as executor: the exit waits for the workers
ExecutorExit ==
    /\ main.pc \in {"raising", "exiting"}
    /\ main' = [main EXCEPT !.pc = IF @ = "raising" THEN "raised" ELSE "returned"]
    /\ UNCHANGED <<args, cur, run, bar, queue, evalVars, poolVars>>

\* main_async with the progress bar on one algorithm, and on all algorithms
MainArgs ==
    [entry : {"bar"}, algos : {<<"fast">>, <<"matrix">>}, n : RunNs, timeout : {0, 1},
     threshold : RunThresholds, details : {TRUE}, cpu_count : {2}]
    \cup [entry : {"all"}, algos : {ALGORITHM_REGISTRY}, n : RunNs, timeout : {0, 1},
          threshold : RunThresholds, details : {FALSE}, cpu_count : {2}]

InitMain ==
    /\ args \in MainArgs
    /\ cur = "main"
    /\ run = [r \in Runs |-> NoRun]
    /\ main = [NoMain EXCEPT !.pc = "start"]
    /\ bar = NoBar
    /\ queue = <<>>
    /\ EvalIdle
    /\ PoolIdle

\* the steps of main_async other than the call of an algorithm
MainSteps ==
    \/ CreateTasks
    \/ BarStart
    \/ BarTick
    \/ BarReceive
    \/ BarTimeout
    \/ GroupExit
    \/ ExecutorExit
    \/ \E r \in Runs : LoopRuns(r)
    \/ \E r \in Runs : EnterTimeout(r)
    \/ \E r \in Runs : Continue(r)
    \/ \E r \in Runs : ChildrenDone(r)
    \/ \E r \in Runs : WorkerDone(r)
    \/ \E r \in Runs : WorkerFails(r)
    \/ \E r \in Runs : Tick(r)
    \/ \E r \in Runs : TimerCallback(r)
    \/ \E r \in Runs : ReturnsResult(r)
    \/ \E r \in Runs : TimesOut(r)
    \/ \E r \in Runs : Fails(r)
    \/ \E r \in Runs : PutDone(r)

NextMain == MainSteps \/ \E r \in Runs : CallEvaluator(r)

\* The event loop runs what is ready, time passes and the workers end what
\* they were given: some step is taken as long as one is possible.  A
\* message that is on the queue while the manager waits for one is taken.
\* The algorithm, once called, runs to its first await: its computation
\* between two awaits is finite.
FairMain ==
    /\ WF_vars(MainSteps)
    /\ WF_vars(BarReceive)
    /\ \A r \in Runs : []<>~(cur = r /\ run[r].pc = "calling")

FairSpecMain == InitMain /\ [][NextMain]_vars /\ FairMain

\* C8: with the progress bar on 'fast' or 'matrix', "done" is put on the
\* queue once, after the run has ended by its result, its error or its
\* timeout, and is put in every execution; progress_bar_manager and
\* main_async both end in every execution.
C8_DoneThenBothTerminate ==
    /\ [](bar.done = 1 =>
             \E r \in Range(args.algos) :
                 /\ run[r].pc = "ended"
                 /\ Len(run[r].out) = 1
                 /\ run[r].out[1].kind \in {"result", "error", "timeout"})
    /\ [](bar.done <= 1)
    /\ args.entry = "bar" => <>(bar.done = 1)
    /\ args.entry = "bar" => <>[](bar.pc = "ended" /\ main.pc = "returned")

\* main_async has returned after a run that timed out: the bar had taken
\* progress messages, then "done"
C8_Witness ==
    /\ main.pc = "returned"
    /\ bar.pc = "ended" /\ bar.n >= 1 /\ bar.done = 1 /\ queue = <<>>
    /\ \E r \in Range(args.algos) : run[r].out = <<Report("timeout", NoValue)>>

\* C9: on all algorithms, every algorithm of ALGORITHM_REGISTRY gets a task,
\* is called once and has a timer of its own; a run is cancelled by its own
\* timer only, ends with one report, which is a timeout report only if its
\* own timer has fired and an error report only if its own call has failed;
\* _run_all_algorithms ends only after every run has ended, and returns.
C9_AllRunApart ==
    args.entry = "all" =>
        /\ main.pc # "start" => \A r \in Range(ALGORITHM_REGISTRY) : run[r].pc # "absent"
        /\ \A r \in Runs :
              /\ run[r].starts <= 1
              /\ run[r].cancel \in {"no", "timeout"}
              /\ run[r].cancel = "timeout" => run[r].timer = "fired"
              /\ run[r].pc = "ended" =>
                    /\ run[r].starts = 1
                    /\ run[r].timer \in {"cancelled", "fired"}
                    /\ run[r].exc = "none"
                    /\ Len(run[r].out) = 1
                    /\ run[r].out[1].kind = "timeout" => run[r].timer = "fired"
                    /\ run[r].out[1].kind = "error" =>
                          run[r].status # "ok" \/ run[r].awaited = "failed"
        /\ main.pc \notin {"raising", "raised"}
        /\ main.pc \in {"exiting", "returned"} =>
              \A r \in Range(ALGORITHM_REGISTRY) : run[r].pc = "ended"

\* _run_all_algorithms has returned after one run has timed out, one has
\* failed and one has given its result
C9_Witness ==
    /\ args.entry = "all"
    /\ main.pc = "returned"
    /\ \E r1, r2, r3 \in Range(ALGORITHM_REGISTRY) :
          /\ run[r1].out = <<Report("timeout", NoValue)>>
          /\ run[r2].out = <<Report("error", NoValue)>>
          /\ run[r3].out = <<Report("result", NoValue)>>


-----------------------------------------------------------------------------
(* The legacy multiplication: fibonacci.fft (NTT), fibonacci.karatsuba and *)
(* the dispatcher fibonacci.multiplication.  A call ends in a record: its  *)
(* status ("ok" or "ValueError"), its value, the path it took and, for the *)
(* NTT, the transform length N (0 elsewhere).                              *)

\* (x * y) % p for 0 <= x < p.  y is taken a few bits at a time, fewer the
\* larger p is, so that no intermediate value leaves 32 bits.
RECURSIVE MulModBy(_, _, _, _)
MulModBy(x, y, p, c) ==
    IF y = 0 THEN 0 ELSE (x * (y % c) + c * MulModBy(x, y \div c, p, c)) % p

MulMod(x, y, p) ==
    MulModBy(x, y, p, IF p <= 65537 THEN 8192 ELSE IF p < 2097152 THEN 256
                      ELSE IF p < 8388608 THEN 64 ELSE 4)

\* pow(b, e, p) for e >= 0
RECURSIVE PowMod(_, _, _)
PowMod(b, e, p) ==
    IF e = 0 THEN 1 % p
    ELSE LET h == PowMod(b, e \div 2, p)
             s == MulMod(h, h, p)
         IN IF e % 2 = 1 THEN MulMod(s, b % p, p) ELSE s

\* <<g, u, v>> with u * a + v * b = g = gcd(a, b)
RECURSIVE Egcd(_, _)
Egcd(a, b) ==
    IF b = 0 THEN <<a, 1, 0>>
    ELSE LET r == Egcd(b, a % b) IN <<r[1], r[3], r[2] - (a \div b) * r[3]>>

\* pow(a, -1, m), or -1 where Python raises "base is not invertible"
InvMod(a, m) == LET r == Egcd(a % m, m) IN IF r[1] = 1 THEN r[2] % m ELSE -1

\* What ntt returns when pow(w_len, -1, n) has raised.
NotInvertible == <<-3>>

RECURSIVE BitRev(_, _)
\* i with its bits low bits reversed: where the permutation of ntt sends i
BitRev(i, bits) ==
    IF bits = 0 THEN 0 ELSE (i % 2) * 2^(bits - 1) + BitRev(i \div 2, bits - 1)

RECURSIVE Log2(_)
Log2(n) == IF n <= 1 THEN 0 ELSE 1 + Log2(n \div 2)

Force(s) == SubSeq(s, 1, Len(s))

RECURSIVE PowTable(_, _, _)
\* <<w^0, ..., w^(k-1)>> modulo p, k a power of two: the values w takes in
\* the inner loop of ntt
PowTable(w, k, p) ==
    IF k = 1 THEN <<1 % p>>
    ELSE LET t == PowTable(w, k \div 2, p)
             m == PowMod(w, k \div 2, p)
         IN t \o [j \in 1..(k \div 2) |-> MulMod(t[j], m, p)]

\* One pass of the while loop of ntt: the butterflies of every block of
\* length len_.
Stage(a, len_, w_len, n) ==
    LET half == len_ \div 2
        w == PowTable(w_len, half, n)
    IN Force([idx \in 1..Len(a) |->
          LET j == (idx - 1) % len_
          IN IF j < half
             THEN (a[idx] + MulMod(a[idx + half], w[j + 1], n)) % n
             ELSE (a[idx - half] - MulMod(a[idx], w[j - half + 1], n)) % n])

RECURSIVE Stages(_, _, _, _, _)
Stages(a, len_, n, root, inverse) ==
    IF len_ > Len(a) THEN a
    ELSE LET w_len == PowMod(root, (n - 1) \div len_, n)
             w_inv == InvMod(w_len, n)
         IN IF inverse /\ w_inv = -1 THEN NotInvertible
            ELSE Stages(Stage(a, len_, IF inverse THEN w_inv ELSE w_len, n),
                        2 * len_, n, root, inverse)

\* ntt(a, n, root, inverse): the bit-reversal permutation, then the passes
ntt(a, n, root, inverse) ==
    LET N == Len(a)
        reversed == Force([i \in 1..N |-> a[BitRev(i - 1, Log2(N)) + 1]])
    IN Stages(reversed, 2, n, root, inverse)

NTT_PRIMES ==
    (2^10 :> <<2^16 + 1, 3>>) @@
    (2^11 :> <<2^18 * 5 + 1, 3>>) @@
    (2^12 :> <<2^18 * 7 + 1, 3>>) @@
    (2^13 :> <<2^18 * 11 + 1, 3>>) @@
    (2^14 :> <<2^20 * 3 + 1, 3>>) @@
    (2^15 :> <<2^20 * 5 + 1, 3>>) @@
    (2^16 :> <<2^22 * 3 + 1, 5>>) @@
    (2^17 :> <<2^24 * 3 + 1, 3>>) @@
    (2^18 :> <<2^25 * 3 + 1, 3>>) @@
    (2^19 :> <<2^25 * 5 + 1, 3>>) @@
    (2^20 :> <<2^26 * 3 + 1, 5>>)

\* to_base(n): the digits of n in base BASE, [0] for 0
to_base(n) == IF n = Zero THEN <<0>> ELSE n

RECURSIVE TransformSize(_, _)
\* the while loop of fft.multiply: N doubles until it reaches k
TransformSize(N, k) == IF N < k THEN TransformSize(2 * N, k) ELSE N

Extended(digits, N) == digits \o [i \in 1..(N - Len(digits)) |-> 0]

Raised(path, N) == [status |-> "ValueError", value |-> NoValue, path |-> path, N |-> N]

Product_(value, path, N) == [status |-> "ok", value |-> value, path |-> path, N |-> N]

\* The rest of fft.multiply once the inverse transform is known.
Reconstructed(c, N, p) ==
    IF c = NotInvertible THEN Raised("ntt", N)
    ELSE LET inv_N == InvMod(N, p)
         IN Product_(Carry([i \in 1..N |-> MulMod(c[i], inv_N, p)], BASE), "ntt", N)

Transformed(n_a, n_b, N, p, root) ==
    LET a_ntt == ntt(n_a, p, root, FALSE)
        b_ntt == ntt(n_b, p, root, FALSE)
        c_ntt == Force([i \in 1..N |-> MulMod(a_ntt[i], b_ntt[i], p)])
    IN Reconstructed(ntt(c_ntt, p, root, TRUE), N, p)

\* fft.multiply, were it to return a truncated product (that of the lowest
\* digits) where the table has no entry.
fft_multiply_without_entry(a, b) ==
    LET n_a == to_base(a)
        n_b == to_base(b)
        N == TransformSize(1, Len(n_a) + Len(n_b))
    IN IF N \notin DOMAIN NTT_PRIMES THEN Product_(Mul(<<n_a[1]>>, <<n_b[1]>>), "ntt", N)
       ELSE Transformed(Extended(n_a, N), Extended(n_b, N), N,
                        NTT_PRIMES[N][1], NTT_PRIMES[N][2])

\* fft.multiply(a, b)
fft_multiply(a, b) ==
    LET n_a == to_base(a)
        n_b == to_base(b)
        N == TransformSize(1, Len(n_a) + Len(n_b))
    IN IF N \notin DOMAIN NTT_PRIMES THEN Raised("ntt", N)
       ELSE Transformed(Extended(n_a, N), Extended(n_b, N), N,
                        NTT_PRIMES[N][1], NTT_PRIMES[N][2])

\* karatsuba works on decimal digits (len(str(x)), divmod by 10^m2).  Below,
\* a decimal number is the sequence of its digits, least significant first,
\* with no leading zero: str(x) reversed, <<>> for 0.

\* The largest number of digits str() converts; beyond it CPython raises
\* ValueError (sys.int_info.default_max_str_digits).
INT_MAX_STR_DIGITS == 4300

AddDec(x, y) ==
    Carry([i \in 1..Max2(Len(x), Len(y)) |-> Digit(x, i) + Digit(y, i)], 10)

SubDec(x, y) ==
    Carry([i \in 1..Max2(Len(x), Len(y)) |-> Digit(x, i) - Digit(y, i)], 10)

\* x * d for one digit d: the native product of the base case
TimesDigit(x, d) == Carry([i \in 1..Len(x) |-> x[i] * d], 10)

\* divmod(x, 10^m2): the quotient and the remainder
High(x, m2) == IF Len(x) <= m2 THEN Zero ELSE SubSeq(x, m2 + 1, Len(x))
Low(x, m2) == Trim(SubSeq(x, 1, Min2(m2, Len(x))))

\* What a call of karatsuba gives: negative tells that some middle term
\* z1 - z2 - z0 was below zero.
KaratsubaRaised == [status |-> "ValueError", value |-> NoValue, negative |-> FALSE]

KaratsubaReturns(value, negative) ==
    [status |-> "ok", value |-> value, negative |-> negative]

\* (z2 * 10^(2*m2)) + ((z1 - z2 - z0) * 10^m2) + z0
Recombined(z0, z1, z2, m2) ==
    LET middle == SubDec(SubDec(z1.value, z2.value), z0.value)
    IN IF z0.status # "ok" \/ z1.status # "ok" \/ z2.status # "ok" THEN KaratsubaRaised
       ELSE KaratsubaReturns(
               AddDec(AddDec(Shift(z2.value, 2 * m2), Shift(middle, m2)), z0.value),
               middle = Negative \/ z0.negative \/ z1.negative \/ z2.negative)

RECURSIVE karatsuba(_, _)
SubProducts(high1, low1, high2, low2, m2) ==
    LET z0 == karatsuba(low1, low2)
        z1 == karatsuba(AddDec(low1, high1), AddDec(low2, high2))
        z2 == karatsuba(high1, high2)
    IN After(z0, After(z1, After(z2, Recombined(z0, z1, z2, m2))))

\* karatsuba(x, y)
karatsuba(x, y) ==
    IF Len(x) <= 1 \/ Len(y) <= 1
    THEN KaratsubaReturns(IF Len(x) <= 1 THEN TimesDigit(y, Digit(x, 1))
                                         ELSE TimesDigit(x, Digit(y, 1)), FALSE)
    ELSE IF Len(x) > INT_MAX_STR_DIGITS \/ Len(y) > INT_MAX_STR_DIGITS
    THEN KaratsubaRaised
    ELSE LET m2 == Max2(Len(x), Len(y)) \div 2
         IN SubProducts(High(x, m2), Low(x, m2), High(y, m2), Low(y, m2), m2)

\* The decimal digits of an integer and back.  Both go through base 10^4,
\* most significant digit first: acc * from + digit, in the target base.
RECURSIVE Rebased(_, _, _, _, _, _)
Rebased(v, lo, hi, acc, from, to) ==
    IF lo = hi
    THEN Carry([i \in 1..(Len(acc) + 1) |->
                  Digit(acc, i) * from + (IF i = 1 THEN v[Len(v) + 1 - lo] ELSE 0)], to)
    ELSE LET left == Rebased(v, lo, (lo + hi) \div 2, acc, from, to)
         IN After(left, Rebased(v, (lo + hi) \div 2 + 1, hi, left, from, to))

Rebase(v, from, to) == IF Len(v) = 0 THEN Zero ELSE Rebased(v, 1, Len(v), Zero, from, to)

\* str(a), as decimal digits
Decimal(a) ==
    LET chunks == Rebase(a, BASE, 10000)
    IN Trim([i \in 1..(4 * Len(chunks)) |->
                (chunks[(i + 3) \div 4] \div 10^((i - 1) % 4)) % 10])

\* The integer of decimal digits
Limbs(x) ==
    LET chunks == [k \in 1..((Len(x) + 3) \div 4) |->
                      Digit(x, 4 * k - 3) + 10 * Digit(x, 4 * k - 2)
                    + 100 * Digit(x, 4 * k - 1) + 1000 * Digit(x, 4 * k)]
    IN Rebase(chunks, 10000, BASE)

KARATSUBA_THRESHOLD == 4096
FFT_THRESHOLD == 20000

ByKaratsuba(r) ==
    IF r.status = "ok" THEN Product_(Limbs(r.value), "karatsuba", 0)
    ELSE Raised("karatsuba", 0)

\* fibonacci.multiplication.multiply(a, b)
multiplication_multiply(a, b) ==
    LET size_a == bit_length(a)
        size_b == bit_length(b)
    IN IF size_a < KARATSUBA_THRESHOLD \/ size_b < KARATSUBA_THRESHOLD
       THEN Product_(Mul(a, b), "native", 0)
       ELSE IF size_a < FFT_THRESHOLD \/ size_b < FFT_THRESHOLD
       THEN ByKaratsuba(karatsuba(Decimal(a), Decimal(b)))
       ELSE fft_multiply(a, b)

-----------------------------------------------------------------------------
(* Specification SpecMul: one call of a multiplication routine on drawn    *)
(* operands: multiply of pyfibonacci.core, the dispatcher                  *)
(* fibonacci.multiplication.multiply, fft.multiply, karatsuba.  The        *)
(* operands of karatsuba are decimal numbers, the others limbs.  A drawn    *)
(* operand is either given digit by digit or as the exponent of a power of *)
(* two.                                                                    *)

MaxOperand == 6

\* 2^e as limbs, 10^e as decimal digits
PowerOfTwo(e) == [i \in 1..(e \div 16 + 1) |-> IF i = e \div 16 + 1 THEN 2^(e % 16) ELSE 0]
PowerOfTen(e) == [i \in 1..(e + 1) |-> IF i = e + 1 THEN 1 ELSE 0]

Given(xs) == {[form |-> "digits", v |-> x] : x \in xs}
TwoTo(e) == [form |-> "two", v |-> <<e>>]
Operand(d) == IF d.form = "two" THEN PowerOfTwo(d.v[1]) ELSE d.v

Pairs(fn, as, bs, thresholds, executors) ==
    [fn : {fn}, a : as, b : bs, threshold : thresholds, executor : executors]

SmallOperands == Given({FromInt(k) : k \in 0..MaxOperand})

\* Operands around the sizes at which multiply of pyfibonacci.core starts to
\* submit: 3.32, 6.64 and 26.57 bits for the thresholds 1, 2 and 8, and
\* 11779.56 bits for the threshold 3546 of test_bug.py.
CoreInputs ==
    Pairs("multiply",
          SmallOperands \cup Given({FromInt(15), FromInt(64), FromInt(127)})
             \cup {TwoTo(25), TwoTo(26)},
          Given({<<1>>, FromInt(8)}) \cup {TwoTo(26)}, {0, 1, 2, 8}, BOOLEAN)
    \cup Pairs("multiply", {TwoTo(11783), TwoTo(11779), TwoTo(11778)},
               Given({<<2>>}), {3546}, BOOLEAN)

\* Operand pairs of each regime of the dispatcher, and pairs at its limits.
DispatcherInputs ==
    Pairs("multiplication.multiply", SmallOperands, SmallOperands, {0}, {FALSE})
    \cup Pairs("multiplication.multiply",
               Given({<<3>>}) \cup {TwoTo(KARATSUBA_THRESHOLD - 2)},
               {TwoTo(KARATSUBA_THRESHOLD - 2), TwoTo(KARATSUBA_THRESHOLD - 1)},
               {0}, {FALSE})
    \cup Pairs("multiplication.multiply", Given({Limbs(PowerOfTen(1233))}),
               Given({Limbs(PowerOfTen(1233))}), {0}, {FALSE})
    \cup Pairs("multiplication.multiply", {TwoTo(FFT_THRESHOLD - 1)},
               {TwoTo(FFT_THRESHOLD - 1)}, {0}, {FALSE})
    \cup Pairs("multiplication.multiply", {TwoTo(16 * 2^19)}, {TwoTo(16 * 2^19)},
               {0}, {FALSE})

FftInputs ==
    Pairs("fft.multiply", SmallOperands, SmallOperands, {0}, {FALSE})
    \cup Pairs("fft.multiply",
               Given({Add(PowerOfTwo(16 * 600), <<5>>)}) \cup {TwoTo(16 * 509)},
               Given({<<3>>}) \cup {TwoTo(32)}, {0}, {FALSE})
    \cup Pairs("fft.multiply", {TwoTo(16 * 2^19)}, {TwoTo(16 * 2^19)}, {0}, {FALSE})

KaratsubaInputs ==
    Pairs("karatsuba",
          Given({Decimal(FromInt(k)) : k \in 0..(2 * MaxOperand)}
                   \cup {<<9, 9, 9>>, <<1, 2, 3, 4, 5, 6, 7, 8, 9>>, PowerOfTen(40)}),
          Given({Decimal(FromInt(k)) : k \in 0..(2 * MaxOperand)}
                   \cup {<<9, 9, 9, 9>>, <<9, 8, 7, 6, 5, 4, 3, 2, 1, 9, 8, 7>>}),
          {0}, {FALSE})
    \cup Pairs("karatsuba",
               Given({PowerOfTen(INT_MAX_STR_DIGITS - 1), PowerOfTen(INT_MAX_STR_DIGITS)}),
               Given({PowerOfTen(INT_MAX_STR_DIGITS - 1), PowerOfTen(INT_MAX_STR_DIGITS)}),
               {0}, {FALSE})

InitMul ==
    /\ pc = "ready"
    /\ inp \in CoreInputs \cup DispatcherInputs \cup FftInputs \cup KaratsubaInputs
    /\ call = NoCall
    /\ AppIdle
    /\ PoolIdle

CallMultiply ==
    /\ pc = "ready"
    /\ inp.fn = "multiply"
    /\ LET context == CalculationContext(inp.threshold, inp.executor, FALSE)
       IN call' = [fn |-> "multiply",
                   r |-> multiply(context, Operand(inp.a), Operand(inp.b))]
    /\ pc' = "returned"
    /\ UNCHANGED <<inp, appVars, poolVars>>

CallMultiplicationMultiply ==
    /\ pc = "ready"
    /\ inp.fn = "multiplication.multiply"
    /\ call' = [fn |-> "multiplication.multiply",
                r |-> multiplication_multiply(Operand(inp.a), Operand(inp.b))]
    /\ pc' = "returned"
    /\ UNCHANGED <<inp, appVars, poolVars>>

CallFftMultiply ==
    /\ pc = "ready"
    /\ inp.fn = "fft.multiply"
    /\ call' = [fn |-> "fft.multiply", r |-> fft_multiply(Operand(inp.a), Operand(inp.b))]
    /\ pc' = "returned"
    /\ UNCHANGED <<inp, appVars, poolVars>>

CallKaratsuba ==
    /\ pc = "ready"
    /\ inp.fn = "karatsuba"
    /\ call' = [fn |-> "karatsuba", r |-> karatsuba(Operand(inp.a), Operand(inp.b))]
    /\ pc' = "returned"
    /\ UNCHANGED <<inp, appVars, poolVars>>

NextMul ==
    \/ CallMultiply
    \/ CallMultiplicationMultiply
    \/ CallFftMultiply
    \/ CallKaratsuba

SpecMul == InitMul /\ [][NextMul]_vars

\* The operands of the call, and the larger of their bit lengths.
OperandA == Operand(inp.a)
OperandB == Operand(inp.b)
LargerSize == Max2(bit_length(OperandA), bit_length(OperandB))

-----------------------------------------------------------------------------
\* C10: in each of the three size regimes, fibonacci.multiplication.multiply
\* returns exactly the product a * b (the NTT being taken where the table
\* has an entry for its transform length; C13 is about the other lengths).
C10_DispatcherExact ==
    Returned("multiplication.multiply") /\ call.r.N \in DOMAIN NTT_PRIMES \cup {0} =>
        call.r.status = "ok" /\ call.r.value = Mul(OperandA, OperandB)

\* C11: multiply(context, a, b) of pyfibonacci.core returns a * b, and it
\* submits the product to the executor iff there is an executor and
\* max(a.bit_length(), b.bit_length()) > threshold * log2(10), that is
\* 2^max > 10^threshold, that is max >= bit_length(10^threshold); without an
\* executor nothing is submitted whatever the sizes.
C11_SubmitsIffLarge ==
    Returned("multiply") =>
        /\ call.r.v = Mul(OperandA, OperandB)
        /\ ~inp.executor => call.r.pool = 0
        /\ inp.executor =>
              (call.r.pool = 1 <=>
                  LargerSize >= bit_length(Limbs(PowerOfTen(inp.threshold))))

\* The case of test_bug.py: threshold 3546, a = 2^11783, b = 2, submitted;
\* 11784 bits exceed 3546 * log2(10) = 11779.557.
C11_Witness ==
    /\ Returned("multiply")
    /\ inp.executor
    /\ inp.threshold = 3546
    /\ inp.a = TwoTo(11783)
    /\ call.r.pool = 1
    /\ call.r.v = PowerOfTwo(11784)

\* C12: the dispatcher selects its algorithm from m = max(bit_length(a),
\* bit_length(b)): the direct product when m < KARATSUBA_THRESHOLD, Karatsuba
\* when KARATSUBA_THRESHOLD <= m < FFT_THRESHOLD, the NTT when
\* m >= FFT_THRESHOLD.
C12_SelectsByLargerOperand ==
    Returned("multiplication.multiply") =>
        LET m == LargerSize
        IN call.r.path = IF m < KARATSUBA_THRESHOLD THEN "native"
                         ELSE IF m < FFT_THRESHOLD THEN "karatsuba" ELSE "ntt"

\* C13: when the dispatcher selects the NTT (both operands of at least
\* FFT_THRESHOLD bits) and NTT_PRIMES has no entry for the transform length
\* the operands require, the call still returns a * b (through Karatsuba)
\* instead of failing.
C13_FallsBackWithoutEntry ==
    /\ Returned("multiplication.multiply")
    /\ bit_length(OperandA) >= FFT_THRESHOLD
    /\ bit_length(OperandB) >= FFT_THRESHOLD
    /\ TransformSize(1, Len(to_base(OperandA)) + Len(to_base(OperandB))) \notin DOMAIN NTT_PRIMES
    => call.r.status = "ok" /\ call.r.value = Mul(OperandA, OperandB)

\* C14: fft.multiply(a, b) takes for N the least power of two that is at
\* least len(digits(a)) + len(digits(b)), the digits in base 2^16 (one digit
\* for 0); NTT_PRIMES has no entry for N exactly when N < 2^10 or N > 2^20,
\* and then the call raises and returns no value.  (What it returns where
\* the table has an entry is the matter of C10.)
C14_RaisesWithoutEntry ==
    Returned("fft.multiply") =>
        LET N == call.r.N
            digits == Max2(1, Len(OperandA)) + Max2(1, Len(OperandB))
        IN /\ \E k \in 0..30 : N = 2^k
           /\ N >= digits
           /\ N \div 2 < digits
           /\ N \notin DOMAIN NTT_PRIMES <=> (N < 2^10 \/ N > 2^20)
           /\ N \notin DOMAIN NTT_PRIMES =>
                 call.r.status = "ValueError" /\ call.r.value = NoValue

\* Two operands of 2^19 + 1 digits each: N = 2^21, beyond the table.
C14_Witness ==
    /\ Returned("fft.multiply")
    /\ inp.a = TwoTo(16 * 2^19)
    /\ call.r.N = 2^21
    /\ call.r.status = "ValueError"

-----------------------------------------------------------------------------
\* C15: for n = 0 and n = 1 every evaluator (fib_fast_doubling, fib_matrix,
\* FastDoubling.calculate_core, MatrixExponentiation.calculate_core) returns
\* F(n) = n without a single call of the multiplication routine.
C15_BaseCasesWithoutProduct ==
    pc = "returned" /\ inp.n \in {0, 1} =>
        /\ call.r.status = "ok"
        /\ call.r.value = FromInt(inp.n)
        /\ call.r.nmul = 0
        /\ call.r.npool = 0
        /\ call.fn = "Calculator.calculate" =>
              LET core == calculate_core(call.core, inp.n, inp.threshold, call.callback,
                                         call.cpu_count)
              IN core.value = FromInt(inp.n) /\ core.nmul = 0 /\ core.npool = 0


\* C16: Cassini's identity for the values of fib_fast_doubling: for every
\* n >= 1, fib(n+1) * fib(n-1) - fib(n)^2 is 1 when n is even and -1 when n
\* is odd.
C16_Cassini ==
    Returned("fib_fast_doubling") /\ inp.n >= 1 =>
        LET fib(k) == fib_fast_doubling(call.context, k).value
            neighbours == Mul(fib(inp.n + 1), fib(inp.n - 1))
            square == Mul(call.r.value, call.r.value)
        IN IF inp.n % 2 = 0 THEN neighbours = Add(square, One)
                            ELSE Add(neighbours, One) = square

\* n = 100: F(101) * F(99) = F(100)^2 + 1.
C16_Witness ==
    /\ Returned("fib_fast_doubling")
    /\ inp.n = 100
    /\ call.r.value = <<49091, 50580, 30375, 13275, 19>>
    /\ Mul(fib_fast_doubling(call.context, 101).value,
           fib_fast_doubling(call.context, 99).value)
          = Add(Mul(call.r.value, call.r.value), One)

\* C17: the value of Calculator(FastDoubling).calculate(n, threshold) does
\* not depend on threshold, and for the same (F(k), F(k+1)) the parallel
\* path and the sequential path of a doubling step return the same pair.
C17_ThresholdIndependent ==
    Returned("Calculator.calculate") /\ call.core = "FastDoubling" /\ inp.n >= 0 =>
        /\ \A threshold \in Thresholds :
              Calculator_calculate("FastDoubling", inp.n, threshold, call.callback,
                                   call.cpu_count).value = call.r.value
        /\ LET f_k == fib_iterative(inp.n).value
               f_k1 == fib_iterative(inp.n + 1).value
               two_fk1_minus_fk == Sub(Add(f_k1, f_k1), f_k)
               parallel == FastDoubling_parallel_multiply(f_k, f_k1, two_fk1_minus_fk)
               sequential == FastDoubling_sequential_multiply(f_k, f_k1, two_fk1_minus_fk)
           IN parallel.f_2k = sequential.f_2k /\ parallel.f_2k1 = sequential.f_2k1

\* n = 100 with threshold 8 on two processors: products went to workers, and
\* the value is that of threshold 0, where none did.
C17_Witness ==
    /\ Returned("Calculator.calculate")
    /\ call.core = "FastDoubling"
    /\ inp.n = 100
    /\ inp.threshold = 8
    /\ call.r.npool > 0
    /\ Calculator_calculate("FastDoubling", 100, 0, call.callback, call.cpu_count).npool = 0
    /\ Calculator_calculate("FastDoubling", 100, 0, call.callback, call.cpu_count).value
          = call.r.value

-----------------------------------------------------------------------------
\* p is prime, by trial division; every p of the table is below 2^28.
IsPrime(p) == p >= 2 /\ \A d \in 2..2^14 : d * d > p \/ p % d # 0

\* C18: every entry N -> (p, g) of NTT_PRIMES has N a power of two, p prime,
\* N a divisor of p - 1, and g^((p-1)/N) mod p, the root the transform of
\* length N uses, of multiplicative order exactly N modulo p (its N-th power
\* is 1 and its N/2-th power is not).  Stated of the entry a call looks up.
C18_TableEntriesValid ==
    \A N \in DOMAIN NTT_PRIMES :
        pc = "returned" /\ call.fn \in {"fft.multiply", "multiplication.multiply"}
                        /\ call.r.N = N =>
            LET p == NTT_PRIMES[N][1]
                root == PowMod(NTT_PRIMES[N][2], (p - 1) \div N, p)
            IN /\ \E k \in 1..30 : N = 2^k
               /\ IsPrime(p)
               /\ (p - 1) % N = 0
               /\ PowMod(root, N, p) = 1
               /\ PowMod(root, N \div 2, p) # 1

\* C19: for all non-negative integers x and y, karatsuba(x, y) returns
\* exactly x * y, and no middle term z1 - z2 - z0 of the recursion is
\* negative.  The product it is compared with is the native one, of the
\* integers whose decimal digits the operands are.
C19_KaratsubaExact ==
    Returned("karatsuba") =>
        /\ call.r.status = "ok"
        /\ ~call.r.negative
        /\ call.r.value = Decimal(Mul(Limbs(OperandA), Limbs(OperandB)))

-----------------------------------------------------------------------------
\* The call of the algorithm of the run r has begun and has not ended.
InCall(r) == run[r].pc \in {"awaiting", "woken", "computing"}

\* C20: a CalculationContext belongs to one top-level calculation: at no
\* time are two algorithms in their calls with the same context, also when
\* main_async runs all algorithms at once.
C20_ContextNotShared ==
    \A r1, r2 \in Runs :
        r1 # r2 /\ InCall(r1) /\ InCall(r2) /\ run[r1].context # "none" =>
            run[r1].context # run[r2].context

-----------------------------------------------------------------------------
\* the integer formed by the leading 1 of n and the j bits that follow it
Prefix(n, j) == n \div Pow(2, BitLenInt(n) - 1 - j)

\* C21: in FastDoubling.calculate_core with n >= 2, after the loop has
\* consumed the j bits that follow the leading 1 of n, (f_k, f_k1) is
\* (F(k), F(k+1)) for k the integer formed by the leading 1 and those j bits;
\* the value returned is F(n).  Stated of the calls of Calculator.calculate
\* that invoke the core (n > MAX_FIB_UINT64).
C21_LoopKeepsPair ==
    Returned("Calculator.calculate") /\ call.core = "FastDoubling" /\ inp.n >= 2
                                     /\ call.r.core =>
        LET use_parallel == call.cpu_count > 1 /\ inp.threshold > 0
            after(j) == FastDoublingLoop(inp.n, inp.threshold, use_parallel,
                                         call.callback, j)
        IN /\ \A j \in 0..(BitLenInt(inp.n) - 1) :
                 /\ after(j).f_k = fib_iterative(Prefix(inp.n, j)).value
                 /\ after(j).f_k1 = fib_iterative(Prefix(inp.n, j) + 1).value
           /\ call.r.value = fib_iterative(inp.n).value

-----------------------------------------------------------------------------
\* C22: in MatrixExponentiation.calculate_core the base is symmetric
\* (b = c) whenever _square_symmetric_matrix is applied to it; the squaring
\* issues exactly 4 products and its result is the general 8-product
\* matrix product base x base; multiplying the running result by the base
\* issues exactly 8 products.
C22_SymmetricSquaring ==
    Returned("Calculator.calculate") /\ call.core = "MatrixExponentiation" /\ call.r.core =>
        LET exponent == inp.n - 1
            bit_len == BitLenInt(exponent)
            use_parallel == call.cpu_count > 1 /\ inp.threshold > 0
            before(j) == MatrixLoop(exponent, inp.threshold, use_parallel, call.callback, j)
            bitset(j) == (exponent \div Pow(2, j)) % 2 = 1
            batches(j) ==
                LegacyMatrixBatchAt(exponent, inp.threshold, use_parallel, j, before(j))
        IN \A j \in 0..(bit_len - 1) :
              /\ Len(batches(j)) = (IF bitset(j) THEN 1 ELSE 0)
                                   + (IF j < bit_len - 1 THEN 1 ELSE 0)
              /\ bitset(j) => Len(batches(j)[1].products) = 8
              /\ j < bit_len - 1 =>
                    /\ before(j).base[2] = before(j).base[3]
                    /\ Len(batches(j)[Len(batches(j))].products) = 4
                    /\ before(j + 1).base
                          = multiply_matrices_legacy(before(j).base, before(j).base)

\* n = 100, exponent 99 = 1100011b: the base squared six times, the last
\* time from the symmetric matrix of F(33), F(32), F(31) by four products in
\* worker processes, and the result multiplied four times by the base.
C22_Witness ==
    /\ Returned("Calculator.calculate")
    /\ call.core = "MatrixExponentiation"
    /\ inp.n = 100
    /\ inp.threshold = 8 /\ call.cpu_count = 2
    /\ call.r.nmul = 4 * 8 + 6 * 4
    /\ call.r.npool > 0
    /\ LET base == MatrixLoop(99, 8, TRUE, call.callback, 5).base
       IN /\ base = <<fib_iterative(33).value, fib_iterative(32).value,
                      fib_iterative(32).value, fib_iterative(31).value>>
          /\ square_symmetric_matrix(base) = multiply_matrices_legacy(base, base)
    /\ call.r.value = fib_iterative(100).value

-----------------------------------------------------------------------------
\* C23: in FastDoubling.calculate_core and in
\* MatrixExponentiation.calculate_core (n >= 2) every step reports once, and
\* the progress reported after the last doubling or squaring step is exactly
\* 1.0.  The reports of the core are those of Calculator.calculate but its
\* own final one.
C23_LastStepReportsOne ==
    Returned("Calculator.calculate") /\ call.r.core /\ call.callback =>
        LET steps == SubSeq(call.r.reports, 1, Len(call.r.reports) - 1)
        IN /\ steps = calculate_core(call.core, inp.n, inp.threshold, TRUE,
                                     call.cpu_count).reports
           /\ Len(steps) > 0
           /\ IsOne(steps[Len(steps)])

-----------------------------------------------------------------------------
\* The evaluator of the run r, resumed at the asyncio.sleep(0) that heads a
\* step, goes on into the step: it issues the products of the step.
StepBegins(r) ==
    /\ run[r].pc = "computing"
    /\ run[r].awaits[run[r].k] = "sleep"
    /\ run'[r].pc \in {"awaiting", "returned"}

\* C24: every step begins with a cancellation point, before the products of
\* the step: once the timeout of a run has fired, the evaluator of the run
\* goes on into no further step.
C24_NoStepAfterTimeout ==
    [][\A r \in Runs : run[r].timer = "fired" => ~StepBegins(r)]_vars

-----------------------------------------------------------------------------
\* the steps of the calculation that have issued products
StepsDone == Cardinality({prods[i].step : i \in 1..Len(prods)})

\* ceil(log2 n), n >= 1
CeilLog2(n) == BitLenInt(n - 1)

\* a calculation of F(n), n >= 2, that has returned and has not read the
\* lookup table of Calculator
Complete ==
    /\ calc.pc = "returned"
    /\ calc.n >= 2
    /\ Legacy(calc.fn) => calc.n > MAX_FIB_UINT64

\* C25: for every n >= 2 a complete evaluation of F(n) performs exactly
\* ceil(log2 n) doubling steps (FastDoubling.calculate_core,
\* fib_fast_doubling) or squaring steps (MatrixExponentiation.calculate_core,
\* fib_matrix).
C25_CeilLog2Steps ==
    Complete => StepsDone = CeilLog2(calc.n)

\* C25, as the code has it: fib_fast_doubling performs bit_length(n) doubling
\* steps, FastDoubling.calculate_core bit_length(n) - 1, fib_matrix
\* bit_length(n - 1) - 1 squaring steps and MatrixExponentiation.calculate_core
\* bit_length(n - 1) iterations.
C25_StepsByBitLength ==
    Complete =>
        StepsDone = IF calc.fn = "fast" THEN BitLenInt(calc.n)
                    ELSE IF calc.fn = "FastDoubling" THEN BitLenInt(calc.n) - 1
                    ELSE IF calc.fn = "matrix" THEN BitLenInt(calc.n - 1) - 1
                    ELSE BitLenInt(calc.n - 1)

\* fib_fast_doubling(context, 5) has returned after three doubling steps,
\* the last with a product from the pool.
C25_Witness ==
    /\ Complete
    /\ calc.fn = "fast" /\ calc.n = 5
    /\ StepsDone = 3
    /\ CeilLog2(calc.n) = 3
    /\ \E i \in 1..Len(prods) : prods[i].step = 3 /\ prods[i].pool
    /\ calc.value = FromInt(5)

-----------------------------------------------------------------------------
(* Specification FairSpecRec: the recursions of fib_matrix (matrix_power)  *)
(* and of fib_fast_doubling (_fib_fast_doubling), frame by frame.          *)
(* call.stack holds the argument m of every frame that has been entered    *)
(* and has not returned, the innermost last; call.r is what the frame that *)
(* has just returned has returned.  A recursion deeper than MaxDepth       *)
(* frames ends the call by RecursionError.                                 *)

MaxDepth == 10

RecInputs == [fn : {"fib_matrix", "fib_fast_doubling"}, n : 0..MaxN, threshold : Thresholds]

RecContext == CalculationContext(inp.threshold, TRUE, FALSE)

\* the recursion, were matrix_power to return at m = 1 only
BaseCase_one_only(fn, m) == IF fn = "fib_matrix" THEN m = 1 ELSE m = 0

\* matrix_power returns at m = 0 and at m = 1, _fib_fast_doubling at m = 0
BaseCase(fn, m) == IF fn = "fib_matrix" THEN m = 0 \/ m = 1 ELSE m = 0

\* what the frame of a base case returns
BaseValue(fn, m) ==
    IF fn = "fib_matrix"
    THEN [m |-> IF m = 0 THEN <<One, Zero, Zero, One>> ELSE <<One, One, One, Zero>>,
          nmul |-> 0, npool |-> 0]
    ELSE [fk |-> Zero, fk1 |-> One, nmul |-> 0, npool |-> 0, puts |-> QueuePut(RecContext)]

\* what the frame of m returns once its recursive call has returned r
FrameValue(fn, m, r) ==
    IF fn = "fib_fast_doubling" THEN Doubling(RecContext, m, r, QueuePut(RecContext))
    ELSE IF m % 2 = 0 THEN SquareOf(RecContext, r)
    ELSE TimesA(RecContext, <<One, One, One, Zero>>, SquareOf(RecContext, r))

\* the innermost frame returns r: to the frame that called it, or to the
\* evaluator, which returns the first cell of r
FrameReturns(r) ==
    IF Len(call.stack) > 1
    THEN /\ pc' = "returning"
         /\ call' = [call EXCEPT !.stack = SubSeq(@, 1, Len(@) - 1), !.r = r]
    ELSE /\ pc' = "returned"
         /\ call' = [call EXCEPT !.stack = <<>>, !.r = r,
                                 !.value = IF inp.fn = "fib_matrix" THEN r.m[1] ELSE r.fk]

InitRec ==
    /\ pc = "ready"
    /\ inp \in RecInputs
    /\ call = NoCall
    /\ AppIdle
    /\ PoolIdle

\* fib_matrix and fib_fast_doubling up to the first frame of the recursion
CallRec ==
    /\ pc = "ready"
    /\ IF inp.n = 0
       THEN /\ pc' = "returned"
            /\ call' = [fn |-> inp.fn, stack |-> <<>>, r |-> <<>>, value |-> Zero]
       ELSE /\ pc' = "called"
            /\ call' = [fn |-> inp.fn, r |-> <<>>, value |-> NoValue,
                        stack |-> <<IF inp.fn = "fib_matrix" THEN inp.n - 1 ELSE inp.n>>]
    /\ UNCHANGED <<inp, appVars, poolVars>>

\* the innermost frame begins: it returns at a base case, and calls itself
\* on m // 2 otherwise ((m - 1) // 2 = m // 2 for an odd m)
Recurse ==
    /\ pc = "called"
    /\ LET m == call.stack[Len(call.stack)]
       IN IF BaseCase(inp.fn, m) THEN FrameReturns(BaseValue(inp.fn, m))
          ELSE IF Len(call.stack) < MaxDepth
          THEN pc' = pc /\ call' = [call EXCEPT !.stack = Append(@, m \div 2)]
          ELSE pc' = "RecursionError" /\ call' = call
    /\ UNCHANGED <<inp, appVars, poolVars>>

\* the innermost frame, its recursive call returned, makes its products and
\* returns
Unwind ==
    /\ pc = "returning"
    /\ FrameReturns(FrameValue(inp.fn, call.stack[Len(call.stack)], call.r))
    /\ UNCHANGED <<inp, appVars, poolVars>>

NextRec ==
    \/ CallRec
    \/ Recurse
    \/ Unwind

\* A frame's own work is finite: the call stops neither before its first
\* frame, nor in a frame that has begun, nor in one whose recursive call has
\* returned.  Every step in these positions changes the stack, so that this
\* rules out nothing but a call that stands still.
FairRec == \A at \in {"ready", "called", "returning"} : []<>(pc # at)

FairSpecRec == InitRec /\ [][NextRec]_vars /\ FairRec

\* C26: fib_matrix(context, n) and fib_fast_doubling(context, n) terminate
\* for every n >= 0: every chain of recursive calls of matrix_power and of
\* _fib_fast_doubling reaches a base case, also matrix_power(A, 0) that
\* n = 1 leads to, and the evaluator returns F(n).
C26_RecursionsTerminate ==
    <>(pc = "returned" /\ call.value = fib_iterative(inp.n).value)

\* fib_matrix(context, 1) has returned 1 from the single frame
\* matrix_power(A, 0), without a product.
C26_Witness ==
    /\ pc = "returned"
    /\ "stack" \in DOMAIN call
    /\ inp.fn = "fib_matrix" /\ inp.n = 1
    /\ call.r = [m |-> <<One, Zero, Zero, One>>, nmul |-> 0, npool |-> 0]
    /\ call.value = One

-----------------------------------------------------------------------------
\* C27: for every 0 <= n <= MAX_FIB_UINT64, Calculator.calculate returns the
\* entry n of the lookup table, which is F(n) and fits in an unsigned 64-bit
\* word, does not invoke the core calculator, and reports progress exactly
\* once, with 1.0; for every n > MAX_FIB_UINT64 it invokes the core
\* calculator.
C27_LookupUpToBound ==
    Returned("Calculator.calculate") /\ inp.n >= 0 =>
        IF inp.n <= MAX_FIB_UINT64
        THEN /\ call.r.status = "ok"
             /\ call.r.value = fib_lookup_table(inp.n)
             /\ call.r.value = fib_iterative(inp.n).value
             /\ bit_length(call.r.value) <= 64
             /\ ~call.r.core
             /\ call.r.nmul = 0
             /\ call.callback => call.r.reports = <<Frac(1, 1)>>
        ELSE /\ call.r.core
             /\ call.r.nmul = calculate_core(call.core, inp.n, inp.threshold, call.callback,
                                             call.cpu_count).nmul
             /\ call.r.nmul > 0

C27_Witness ==
    /\ Returned("Calculator.calculate")
    /\ inp.n = MAX_FIB_UINT64
    /\ call.callback
    /\ ~call.r.core
    /\ bit_length(call.r.value) = 64
    /\ call.r.reports = <<Frac(1, 1)>>

-----------------------------------------------------------------------------
RECURSIVE OperandBits(_)
\* the largest bit length of an operand of the products
OperandBits(products) ==
    IF Len(products) = 0 THEN 0
    ELSE Max2(Max2(bit_length(Head(products).a), bit_length(Head(products).b)),
              OperandBits(Tail(products)))

PoolProducts(batch) == {i \in 1..Len(batch.products) : batch.products[i].pool}

RECURSIVE PoolCount(_)
PoolCount(batches) ==
    IF Len(batches) = 0 THEN 0
    ELSE Cardinality(PoolProducts(Head(batches))) + PoolCount(Tail(batches))

\* C28: in FastDoubling and MatrixExponentiation the products of a step (a
\* doubling step, a matrix product, a symmetric square) are all sent to
\* worker processes if more than one CPU is available, threshold > 0 and the
\* largest bit length of an operand of the step is greater than threshold,
\* and otherwise none of them is; with threshold = 0 no product is ever sent
\* to a process pool.
C28_PoolIffLargeOperand ==
    Returned("Calculator.calculate") /\ call.r.core =>
        LET batches == Plan(call.core, inp.n, inp.threshold, call.cpu_count)
        IN /\ call.r.npool = PoolCount(batches)
           /\ inp.threshold = 0 => call.r.npool = 0
           /\ \A k \in 1..Len(batches) :
                 PoolProducts(batches[k]) =
                     IF /\ call.cpu_count > 1
                        /\ inp.threshold > 0
                        /\ OperandBits(batches[k].products) > inp.threshold
                     THEN 1..Len(batches[k].products)
                     ELSE {}

-----------------------------------------------------------------------------
(* Specification FairSpecBar: progress_bar_manager on a queue that a       *)
(* producer fills, as in tests/test_cli_progress.py.  inp holds the total  *)
(* of the bar, the messages the producer will put, in order, and whether   *)
(* queue.get may raise; call.sent counts the messages put.                 *)

MaxMessages == 3
Messages == {"1", "2", "done", "x"}
Totals == {3, 5}

BarInputs ==
    [total : Totals,
     messages : UNION {[1..k -> Messages] : k \in 0..MaxMessages},
     faulty : BOOLEAN]

InitBar ==
    /\ pc = "producing"
    /\ inp \in BarInputs
    /\ call = [fn |-> "producer", sent |-> 0]
    /\ args = [entry |-> "none"]
    /\ cur = "loop"
    /\ run = <<>>
    /\ main = <<>>
    /\ bar = [NoBar EXCEPT !.pc = "created", !.total = inp.total]
    /\ queue = <<>>
    /\ PoolIdle

\* the producer: await queue.put(message)
Produce ==
    /\ pc = "producing"
    /\ call.sent < Len(inp.messages)
    /\ queue' = Append(queue, inp.messages[call.sent + 1])
    /\ call' = [call EXCEPT !.sent = @ + 1]
    /\ bar' = IF inp.messages[call.sent + 1] = "done" THEN [bar EXCEPT !.done = @ + 1]
              ELSE bar
    /\ UNCHANGED <<pc, inp, args, cur, run, main, poolVars>>

\* queue.get() raises, at the first turn of the loop or at a later turn
\* before its wait has taken time: except Exception: break
BarGetRaises ==
    /\ cur = "loop"
    /\ inp.faulty
    /\ bar.pc = "created" \/ (bar.pc = "getting" /\ bar.timer = "armed")
    /\ bar' = [bar EXCEPT !.pc = "ended", !.stop = "exception",
                          !.timer = IF @ = "unset" THEN @ ELSE "cancelled"]
    /\ UNCHANGED <<args, cur, run, main, queue, evalVars, poolVars>>

NextBar ==
    \/ Produce
    \/ BarStart
    \/ BarTick
    \/ BarReceive
    \/ BarTimeout
    \/ BarGetRaises

\* The event loop runs the manager when it is ready, and time passes.
FairBar ==
    /\ WF_vars(BarStart)
    /\ WF_vars(BarTick)
    /\ WF_vars(BarReceive)
    /\ WF_vars(BarTimeout)

FairSpecBar == InitBar /\ [][NextBar]_vars /\ FairBar

\* the messages the manager has taken from the queue
Taken == SubSeq(inp.messages, 1, call.sent - Len(queue))

RECURSIVE Advance(_)
Advance(updates) ==
    IF Len(updates) = 0 THEN 0 ELSE Amount(Head(updates)) + Advance(Tail(updates))

\* C29: progress_bar_manager advances the bar once for every integer message,
\* in the order of arrival; it sets the bar to its total if and only if it
\* has taken "done", and then it stops; without "done" it stops only when a
\* wait of one second ends while the queue is empty, or when reading the
\* queue raises, and then the bar is not set to its total; it stops in every
\* execution.
C29_ManagerStops ==
    /\ [](bar.updates = SelectSeq(Taken, IsInt))
    /\ [](~bar.forced => bar.n = Advance(bar.updates))
    /\ [](bar.forced <=> \E i \in 1..Len(Taken) : Taken[i] = "done")
    /\ [](bar.forced =>
             /\ bar.pc = "ended" /\ bar.stop = "done" /\ bar.n = bar.total
             /\ \A i \in 1..Len(Taken) : Taken[i] = "done" <=> i = Len(Taken))
    /\ [](bar.pc = "ended" <=> bar.stop \in {"done", "timeout", "exception"})
    /\ [](bar.stop \in {"timeout", "exception"} => ~bar.forced)
    /\ [][bar.pc # "ended" /\ bar'.pc = "ended" /\ bar'.stop # "done" =>
             \/ bar.timer = "due" /\ queue = <<>> /\ bar'.stop = "timeout"
             \/ inp.faulty /\ bar'.stop = "exception"]_vars
    /\ [][bar.pc = "ended" => [bar' EXCEPT !.done = 0] = [bar EXCEPT !.done = 0]]_vars
    /\ <>[](bar.pc = "ended")

\* the manager has stopped at "done" after two updates, with a message left
\* on the queue
C29_Witness ==
    /\ pc = "producing"
    /\ inp.total = 5
    /\ call.sent = 3
    /\ Taken = <<"1", "done">>
    /\ queue = <<"2">>
    /\ bar.pc = "ended" /\ bar.forced /\ bar.n = 5 /\ bar.updates = <<"1">>

-----------------------------------------------------------------------------
\* the sum of the increments the algorithm has put on the progress queue:
\* those the bar has taken and those still on the queue
IncrementsPut == Advance(bar.updates) + Advance(SelectSeq(queue, IsInt))

\* C30: with the progress bar on 'fast' or 'matrix' and n >= 1, the sum of
\* the increments the algorithm has put on the progress queue never exceeds
\* n.bit_length(), the total of the bar, and is equal to it once the
\* algorithm has returned its result.
C30_IncrementsMatchTotal ==
    args.entry = "bar" /\ args.n >= 1 =>
        /\ bar.pc # "absent" => bar.total = IntBitLength(args.n)
        /\ IncrementsPut <= IntBitLength(args.n)
        /\ \A r \in Range(args.algos) :
              run[r].pc = "ended" /\ run[r].out[1].kind = "result" =>
                  IncrementsPut = IntBitLength(args.n)
=============================================================================
